---------------------------- MODULE Spec2Model ----------------------------
(***************************************************************************)
(* Model of the lesson timeline engine of the Shadowing English trainer    *)
(* (src/Shadowing_English_2025_11_24_R0.cpp): the Setup tab's sentence     *)
(* list, its selection, the Begin/End editors, the waveform viewport and   *)
(* the media player, with one action per event handler.                    *)
(*                                                                         *)
(* Conventions.                                                            *)
(*  - A C++ double is modelled as an exact rational <<n, d>> in lowest     *)
(*    terms with d > 0, in seconds.  Rounding of binary floating point is  *)
(*    not modelled.  The source's "undefined" time, -1.0, is <<-1, 1>>.    *)
(*  - A QString is a sequence of one-character strings.                    *)
(*  - Rows are 0-based as in the source; sentences[row + 1] is the         *)
(*    sentence of table row `row`.                                         *)
(***************************************************************************)
EXTENDS Integers, Sequences, FiniteSets, TLC

\* ------------------------------------------------------------------------
\* Exact arithmetic standing for the source's double arithmetic
\* ------------------------------------------------------------------------

Abs(x) == IF x < 0 THEN -x ELSE x

RECURSIVE GCD(_, _)
GCD(a, b) == IF b = 0 THEN a ELSE GCD(b, a % b)

Rat(n, d) ==
    LET s == IF d < 0 THEN -1 ELSE 1
        g == GCD(Abs(n), Abs(d))
    IN  IF n = 0 THEN <<0, 1>> ELSE <<(s * n) \div g, (s * d) \div g>>

R(n) == <<n, 1>>

RAdd(a, b) == Rat(a[1] * b[2] + b[1] * a[2], a[2] * b[2])
RSub(a, b) == Rat(a[1] * b[2] - b[1] * a[2], a[2] * b[2])
RMul(a, b) == Rat(a[1] * b[1], a[2] * b[2])
RDiv(a, b) == Rat(a[1] * b[2], a[2] * b[1])
RLt(a, b) == a[1] * b[2] < b[1] * a[2]
RLe(a, b) == a[1] * b[2] <= b[1] * a[2]
RMax(a, b) == IF RLt(a, b) THEN b ELSE a
RMin(a, b) == IF RLt(b, a) THEN b ELSE a
RAbs(a) == <<Abs(a[1]), a[2]>>

\* Truncation toward zero, as the conversions int(x) and qint64(x) do.
RTrunc(a) == IF a[1] >= 0 THEN a[1] \div a[2] ELSE -((-a[1]) \div a[2])

\* std::round: to the nearest integer, halves away from zero.
RRound(a) ==
    IF a[1] >= 0 THEN (2 * a[1] + a[2]) \div (2 * a[2])
    ELSE -((2 * (-a[1]) + a[2]) \div (2 * a[2]))

Zero == R(0)

\* Sentence's default member initialiser: begin = end = -1.0 ("undefined").
Undefined == R(-1)

\* ------------------------------------------------------------------------
\* Strings
\* ------------------------------------------------------------------------

DigitChars == <<"0", "1", "2", "3", "4", "5", "6", "7", "8", "9">>

IsDigit(c) == \E i \in 1..10 : DigitChars[i] = c

DigitVal(c) == (CHOOSE i \in 1..10 : DigitChars[i] = c) - 1

IsSpace(c) == c \in {" ", "\t", "\n"}

RECURSIVE TrimLeft(_)
TrimLeft(s) ==
    IF s # <<>> /\ IsSpace(Head(s)) THEN TrimLeft(Tail(s)) ELSE s

RECURSIVE TrimRight(_)
TrimRight(s) ==
    IF s # <<>> /\ IsSpace(s[Len(s)])
    THEN TrimRight(SubSeq(s, 1, Len(s) - 1))
    ELSE s

\* QString::trimmed
trimmed(s) == TrimRight(TrimLeft(s))

\* QString::split(sep), keeping empty parts.
RECURSIVE SplitOn(_, _, _)
SplitOn(s, sep, cur) ==
    IF s = <<>> THEN <<cur>>
    ELSE IF Head(s) = sep THEN <<cur>> \o SplitOn(Tail(s), sep, <<>>)
    ELSE SplitOn(Tail(s), sep, Append(cur, Head(s)))

\* QString::split(QRegularExpression("\\s+"), Qt::SkipEmptyParts)
RECURSIVE SplitWords(_, _)
SplitWords(s, cur) ==
    IF s = <<>> THEN (IF cur = <<>> THEN <<>> ELSE <<cur>>)
    ELSE IF IsSpace(Head(s))
         THEN (IF cur = <<>> THEN <<>> ELSE <<cur>>) \o SplitWords(Tail(s), <<>>)
         ELSE SplitWords(Tail(s), Append(cur, Head(s)))

\* QStringList::join(" ")
RECURSIVE JoinWords(_)
JoinWords(ws) ==
    IF ws = <<>> THEN <<>>
    ELSE IF Len(ws) = 1 THEN ws[1]
    ELSE ws[1] \o <<" ">> \o JoinWords(Tail(ws))

\* QString::toLower on the letters the segmenter's break tokens use.
LowerChar(c) ==
    CASE c = "A" -> "a" [] c = "B" -> "b" [] c = "C" -> "c" [] c = "D" -> "d"
      [] c = "E" -> "e" [] c = "H" -> "h" [] c = "N" -> "n" [] c = "O" -> "o"
      [] c = "R" -> "r" [] c = "S" -> "s" [] c = "T" -> "t" [] c = "U" -> "u"
      [] c = "V" -> "v" [] c = "W" -> "w" [] OTHER -> c

toLower(s) == [i \in 1..Len(s) |-> LowerChar(s[i])]

\* The decimal digits of a natural number.
RECURSIVE Digits(_)
Digits(n) ==
    IF n < 10 THEN <<DigitChars[n + 1]>>
    ELSE Digits(n \div 10) \o <<DigitChars[(n % 10) + 1]>>

\* QString::arg(n, width, 10, QLatin1Char('0')): at least `width` digits.
RECURSIVE PadLeft(_, _)
PadLeft(s, width) ==
    IF Len(s) >= width THEN s ELSE PadLeft(<<"0">> \o s, width)

\* The value of a run of digits.
RECURSIVE DigitsVal(_)
DigitsVal(s) ==
    IF s = <<>> THEN 0
    ELSE 10 * DigitsVal(SubSeq(s, 1, Len(s) - 1)) + DigitVal(s[Len(s)])

RECURSIVE Pow10(_)
Pow10(k) == IF k = 0 THEN 1 ELSE 10 * Pow10(k - 1)

AllDigits(s) == \A i \in 1..Len(s) : IsDigit(s[i])

\* ------------------------------------------------------------------------
\* Time codec
\* ------------------------------------------------------------------------

\* The text formatTime builds from a count of milliseconds.
TimeText(msec0) ==
    LET minutes == msec0 \div 60000
        msec1   == msec0 - minutes * 60000
        seconds == msec1 \div 1000
        msec2   == msec1 - seconds * 1000
    IN  PadLeft(Digits(minutes), 2) \o <<":">>
        \o PadLeft(Digits(seconds), 2) \o <<".">>
        \o PadLeft(Digits(msec2), 3)

formatTime(sec) ==
    IF RLt(sec, Zero) THEN <<>>
    ELSE TimeText(RRound(RMul(sec, R(1000))))

\* QString::toInt(&ok): surrounding whitespace ignored, an optional sign,
\* then decimal digits only.
toInt(s) ==
    LET t    == trimmed(s)
        sgn  == t # <<>> /\ Head(t) \in {"+", "-"}
        body == IF sgn THEN Tail(t) ELSE t
    IN  IF body # <<>> /\ AllDigits(body)
        THEN [ok |-> TRUE,
              val |-> IF sgn /\ Head(t) = "-" THEN -DigitsVal(body)
                      ELSE DigitsVal(body)]
        ELSE [ok |-> FALSE, val |-> 0]

\* QString::toDouble(&ok) on plain decimal notation: surrounding whitespace
\* ignored, an optional sign, digits with at most one '.', at least one digit.
toDouble(s) ==
    LET t     == trimmed(s)
        sgn   == t # <<>> /\ Head(t) \in {"+", "-"}
        body  == IF sgn THEN Tail(t) ELSE t
        parts == SplitOn(body, ".", <<>>)
        ip    == parts[1]
        fp    == IF Len(parts) = 2 THEN parts[2] ELSE <<>>
        good  == /\ Len(parts) <= 2
                 /\ AllDigits(ip) /\ AllDigits(fp)
                 /\ Len(ip) + Len(fp) >= 1
        mag   == Rat(DigitsVal(ip) * Pow10(Len(fp)) + DigitsVal(fp),
                     Pow10(Len(fp)))
    IN  IF good
        THEN [ok |-> TRUE,
              val |-> IF sgn /\ Head(t) = "-" THEN RSub(Zero, mag) ELSE mag]
        ELSE [ok |-> FALSE, val |-> Zero]

parseTime(s) ==
    LET t     == trimmed(s)
        parts == SplitOn(t, ":", <<>>)
    IN  IF t = <<>> THEN Undefined
        ELSE IF Len(parts) # 2 THEN Undefined
        ELSE LET minutes  == toInt(parts[1])
                 secFloat == toDouble(parts[2])
             IN  IF ~minutes.ok \/ ~secFloat.ok THEN Undefined
                 ELSE RAdd(RMul(R(minutes.val), R(60)), secFloat.val)

countWords(s) == Len(SplitWords(s, <<>>))

\* ------------------------------------------------------------------------
\* The time codec in binary64 arithmetic
\* ------------------------------------------------------------------------

\* Where the last bit of a double matters, a double is modelled bit for bit
\* as [neg, mant, exp], standing for mant / 2^exp (negated if neg), with mant
\* a natural number of exactly 53 bits, or zero.  mant is a sequence of
\* 15-bit limbs, least significant first, with no zero limb at the top.

Limb == 32768

RECURSIVE BigOf(_)
BigOf(n) == IF n = 0 THEN <<>> ELSE <<n % Limb>> \o BigOf(n \div Limb)

RECURSIVE BigToInt(_)
BigToInt(x) == IF x = <<>> THEN 0 ELSE Head(x) + Limb * BigToInt(Tail(x))

RECURSIVE BigTrim(_)
BigTrim(x) ==
    IF x # <<>> /\ x[Len(x)] = 0 THEN BigTrim(SubSeq(x, 1, Len(x) - 1))
    ELSE x

\* x * c + carry, for c below 2^15.
RECURSIVE BigMulSmall(_, _, _)
BigMulSmall(x, c, carry) ==
    IF x = <<>> THEN BigOf(carry)
    ELSE LET v == Head(x) * c + carry
         IN  <<v % Limb>> \o BigMulSmall(Tail(x), c, v \div Limb)

RECURSIVE Pow2(_)
Pow2(k) == IF k = 0 THEN 1 ELSE 2 * Pow2(k - 1)

\* x * 2^k: whole limbs of zeros below, the rest by multiplication.
BigShl(x, k) ==
    IF x = <<>> THEN x
    ELSE [i \in 1..(k \div 15) |-> 0] \o BigMulSmall(x, Pow2(k % 15), 0)

RECURSIVE BigAdd(_, _, _)
BigAdd(x, y, carry) ==
    IF x = <<>> /\ y = <<>> THEN BigOf(carry)
    ELSE LET a == IF x = <<>> THEN 0 ELSE Head(x)
             b == IF y = <<>> THEN 0 ELSE Head(y)
             v == a + b + carry
         IN  <<v % Limb>>
             \o BigAdd(IF x = <<>> THEN x ELSE Tail(x),
                       IF y = <<>> THEN y ELSE Tail(y), v \div Limb)

\* x - y - borrow without trimming, for x >= y.
RECURSIVE BigSubRaw(_, _, _)
BigSubRaw(x, y, borrow) ==
    IF x = <<>> THEN <<>>
    ELSE LET b == IF y = <<>> THEN 0 ELSE Head(y)
             v == Head(x) - b - borrow
         IN  <<(v + Limb) % Limb>>
             \o BigSubRaw(Tail(x), IF y = <<>> THEN y ELSE Tail(y),
                          IF v < 0 THEN 1 ELSE 0)

BigSub(x, y) == BigTrim(BigSubRaw(x, y, 0))

\* x < y, for trimmed x and y.
RECURSIVE BigLess(_, _)
BigLess(x, y) ==
    IF Len(x) # Len(y) THEN Len(x) < Len(y)
    ELSE IF x = <<>> THEN FALSE
    ELSE IF x[Len(x)] # y[Len(y)] THEN x[Len(x)] < y[Len(y)]
    ELSE BigLess(SubSeq(x, 1, Len(x) - 1), SubSeq(y, 1, Len(y) - 1))

\* Quotient (untrimmed) and remainder of x by d, for d below 2^15.
RECURSIVE BigDivRaw(_, _)
BigDivRaw(x, d) ==
    IF x = <<>> THEN [q |-> <<>>, r |-> 0]
    ELSE LET hi == BigDivRaw(Tail(x), d)
             v  == hi.r * Limb + Head(x)
         IN  [q |-> <<v \div d>> \o hi.q, r |-> v % d]

BigDivSmall(x, d) ==
    [q |-> BigTrim(BigDivRaw(x, d).q), r |-> BigDivRaw(x, d).r]

RECURSIVE BitsOf(_)
BitsOf(n) == IF n = 0 THEN 0 ELSE 1 + BitsOf(n \div 2)

\* The number of bits of a trimmed x.
BigBits(x) ==
    IF x = <<>> THEN 0 ELSE 15 * (Len(x) - 1) + BitsOf(x[Len(x)])

\* Bit i of x, bit 0 being the least significant.
BitAt(x, i) ==
    IF i \div 15 >= Len(x) THEN 0
    ELSE (x[(i \div 15) + 1] \div Pow2(i % 15)) % 2

\* x shifted right by k > 0 bits: the quotient, the last bit shifted out,
\* and whether any bit shifted out before it was set.
BigShr(x, k) ==
    [q |-> BigDivSmall(SubSeq(x, (k \div 15) + 1, Len(x)), Pow2(k % 15)).q,
     round |-> BitAt(x, k - 1),
     sticky |-> \E i \in 0..(k - 2) : BitAt(x, i) = 1]

MantBits == 53

B64Zero == [neg |-> FALSE, mant |-> <<>>, exp |-> 0]

\* The double nearest to x / 2^e (plus a little, if sticky), ties to even.
B64Round(neg, x, e, sticky) ==
    IF x = <<>> THEN B64Zero
    ELSE LET d == BigBits(x) - MantBits
         IN  IF d <= 0
             THEN [neg |-> neg, mant |-> BigShl(x, -d), exp |-> e - d]
             ELSE LET s   == BigShr(x, d)
                      odd == s.q[1] % 2 = 1
                      up  == s.round = 1 /\ (sticky \/ s.sticky \/ odd)
                      m   == IF up THEN BigAdd(s.q, <<>>, 1) ELSE s.q
                  IN  IF BigBits(m) > MantBits
                      THEN [neg |-> neg, mant |-> BigDivSmall(m, 2).q,
                            exp |-> e - d - 1]
                      ELSE [neg |-> neg, mant |-> m, exp |-> e - d]

\* An int as a double (exact).
B64OfInt(n) == B64Round(n < 0, BigOf(Abs(n)), 0, FALSE)

\* The guard bits a quotient is computed with before it is rounded.
GuardBits == 70

\* The double nearest to the rational n / d, for d below 2^15: what
\* QString::toDouble returns for a decimal numeral, and what a literal such
\* as 61.029 is.
B64OfRat(a) ==
    LET qr == BigDivSmall(BigShl(BigOf(Abs(a[1])), GuardBits), a[2])
    IN  B64Round(a[1] < 0, qr.q, GuardBits, qr.r # 0)

\* a + b in binary64, for doubles below 2^53 in magnitude.
B64Add(a, b) ==
    LET e  == IF a.exp > b.exp THEN a.exp ELSE b.exp
        x  == BigShl(a.mant, e - a.exp)
        y  == BigShl(b.mant, e - b.exp)
    IN  IF a.neg = b.neg THEN B64Round(a.neg, BigAdd(x, y, 0), e, FALSE)
        ELSE IF BigLess(x, y) THEN B64Round(b.neg, BigSub(y, x), e, FALSE)
        ELSE B64Round(a.neg, BigSub(x, y), e, FALSE)

\* a * c in binary64, for a natural number c below 2^15.
B64MulSmall(a, c) == B64Round(a.neg, BigMulSmall(a.mant, c, 0), a.exp, FALSE)

\* int(std::round(a)): the nearest integer, halves away from zero.
B64RoundToInt(a) ==
    LET s == IF a.exp <= 0 THEN [q |-> BigShl(a.mant, -a.exp), round |-> 0]
             ELSE BigShr(a.mant, a.exp)
        n == BigToInt(s.q) + s.round
    IN  IF a.neg THEN -n ELSE n

\* formatTime on a double: sec * 1000.0 and std::round are computed in
\* binary64, the rest is int arithmetic.
formatTimeBinary64(sec) ==
    IF sec.neg THEN <<>>
    ELSE TimeText(B64RoundToInt(B64MulSmall(sec, 1000)))

\* The double -1.0 that parseTime returns for "undefined".
B64Undefined == B64OfInt(-1)

\* parseTime returning the double the source computes: toDouble converts
\* the seconds numeral to the nearest double, minutes * 60.0 is exact, and
\* the sum is rounded once more.
parseTimeBinary64(s) ==
    LET t     == trimmed(s)
        parts == SplitOn(t, ":", <<>>)
    IN  IF t = <<>> THEN B64Undefined
        ELSE IF Len(parts) # 2 THEN B64Undefined
        ELSE LET minutes  == toInt(parts[1])
                 secFloat == toDouble(parts[2])
             IN  IF ~minutes.ok \/ ~secFloat.ok THEN B64Undefined
                 ELSE B64Add(B64MulSmall(B64OfInt(minutes.val), 60),
                             B64OfRat(secFloat.val))

\* ------------------------------------------------------------------------
\* Text segmenter
\* ------------------------------------------------------------------------

IsTerminator(c) == c \in {".", "!", "?"}

\* The successive matches of the regular expression ([^.!?]+[.!?]): a run of
\* at least one non-terminator followed by one terminator.  A terminator with
\* no run before it matches nothing, and so does a run the text ends in.
RECURSIVE Matches(_, _)
Matches(s, cur) ==
    IF s = <<>> THEN <<>>
    ELSE IF IsTerminator(Head(s))
         THEN (IF cur = <<>> THEN <<>> ELSE <<Append(cur, Head(s))>>)
              \o Matches(Tail(s), <<>>)
         ELSE Matches(Tail(s), Append(cur, Head(s)))

\* Each element trimmed, the empty ones dropped.
RECURSIVE TrimmedNonEmpty(_)
TrimmedNonEmpty(ss) ==
    IF ss = <<>> THEN <<>>
    ELSE (IF trimmed(Head(ss)) = <<>> THEN <<>> ELSE <<trimmed(Head(ss))>>)
         \o TrimmedNonEmpty(Tail(ss))

baseSplitSentences(text) ==
    LET result == TrimmedNonEmpty(Matches(text, <<>>))
    IN  IF result # <<>> THEN result
        ELSE IF trimmed(text) # <<>> THEN <<trimmed(text)>>
        ELSE <<>>

MAX_WORDS == 25

IsBreakToken(word) ==
    \/ toLower(word) \in { <<"a", "n", "d">>, <<"b", "u", "t">>,
                           <<"b", "e", "c", "a", "u", "s", "e">>,
                           <<"s", "o">>,
                           <<"h", "o", "w", "e", "v", "e", "r">> }
    \/ (word # <<>> /\ word[Len(word)] = ",")

\* The inner loop of splitTextIntoSentencesAdvanced over words[i..], 1-based:
\* `start` is the first word of the segment being accumulated.
RECURSIVE SplitLong(_, _, _)
SplitLong(words, start, i) ==
    IF i > Len(words)
    THEN (IF start <= Len(words)
          THEN <<trimmed(JoinWords(SubSeq(words, start, Len(words))))>>
          ELSE <<>>)
    ELSE IF i - start >= MAX_WORDS \div 2 /\ IsBreakToken(words[i])
         THEN <<trimmed(JoinWords(SubSeq(words, start, i)))>>
              \o SplitLong(words, i + 1, i + 1)
         ELSE SplitLong(words, start, i + 1)

RECURSIVE AdvancedOver(_)
AdvancedOver(base) ==
    IF base = <<>> THEN <<>>
    ELSE LET s     == trimmed(Head(base))
             words == SplitWords(s, <<>>)
         IN  (IF s = <<>> THEN <<>>
              ELSE IF Len(words) <= MAX_WORDS THEN <<s>>
              ELSE SplitLong(words, 1, 1))
             \o AdvancedOver(Tail(base))

splitTextIntoSentencesAdvanced(text) ==
    LET base == baseSplitSentences(text)
        out  == AdvancedOver(base)
    IN  IF out = <<>> THEN base ELSE out

\* ------------------------------------------------------------------------
\* Data model
\* ------------------------------------------------------------------------

\* A default-constructed Sentence with the given id.
NewSentence(id) ==
    [id |-> id, begin |-> Undefined, end |-> Undefined,
     text |-> <<>>, confirm |-> FALSE]

\* The test the source applies wherever it needs a playable segment.
HasValidTiming(s) == RLe(Zero, s.begin) /\ RLt(s.begin, s.end)

\* Mutant of Renumber: the ids are left as they are.
Renumber_Off(sents) == sents

\* The "renumber" loops of onNewTalk and onDeleteRow.
Renumber(sents) == [i \in 1..Len(sents) |-> [sents[i] EXCEPT !.id = i]]

\* Mutant of InsertAt: the new sentence goes above position pos, not below.
InsertAt_Above(sents, pos, s) ==
    SubSeq(sents, 1, pos - 1) \o <<s>> \o SubSeq(sents, pos, Len(sents))

InsertAt(sents, pos, s) ==
    SubSeq(sents, 1, pos) \o <<s>> \o SubSeq(sents, pos + 1, Len(sents))

\* Mutant of RemoveAt: the last sentence is removed, whatever pos is.
RemoveAt_Last(sents, pos) == SubSeq(sents, 1, Len(sents) - 1)

RemoveAt(sents, pos) ==
    SubSeq(sents, 1, pos - 1) \o SubSeq(sents, pos + 1, Len(sents))

RowValid(row, sents) == row >= 0 /\ row < Len(sents)

\* ------------------------------------------------------------------------
\* Waveform widget: a record of its members
\* ------------------------------------------------------------------------

NewWaveform ==
    [duration |-> Zero, selBegin |-> Undefined, selEnd |-> Undefined,
     viewStart |-> Zero, viewEnd |-> R(1), hasView |-> FALSE]

setDuration(w, sec) ==
    LET d == RMax(Zero, sec)
    IN  IF ~w.hasView
        THEN [w EXCEPT !.duration = d, !.viewStart = Zero,
                       !.viewEnd = IF RLt(Zero, d) THEN d ELSE R(1)]
        ELSE [w EXCEPT !.duration = d]

setSelection(w, begin, end) == [w EXCEPT !.selBegin = begin, !.selEnd = end]

clampView(w) ==
    IF RLe(w.duration, Zero)
    THEN [w EXCEPT !.viewStart = Zero, !.viewEnd = R(1)]
    ELSE LET minLen == RDiv(w.duration, R(100))
             vs1 == IF RLt(w.viewStart, Zero) THEN Zero ELSE w.viewStart
             ve1 == IF RLt(w.duration, w.viewEnd) THEN w.duration ELSE w.viewEnd
         IN  IF RLt(RSub(ve1, vs1), minLen)
             THEN LET ve2 == RAdd(vs1, minLen)
                  IN  IF RLt(w.duration, ve2)
                      THEN LET vs3 == RSub(w.duration, minLen)
                           IN  [w EXCEPT !.viewEnd = w.duration,
                                         !.viewStart = IF RLt(vs3, Zero)
                                                       THEN Zero ELSE vs3]
                      ELSE [w EXCEPT !.viewStart = vs1, !.viewEnd = ve2]
             ELSE [w EXCEPT !.viewStart = vs1, !.viewEnd = ve1]

ZoomFactor == Rat(3, 2)

zoomIn(w) ==
    IF RLe(w.duration, Zero) THEN w
    ELSE LET center == RDiv(RAdd(w.viewStart, w.viewEnd), R(2))
             len0   == RDiv(RSub(w.viewEnd, w.viewStart), ZoomFactor)
             len    == RMax(len0, RDiv(w.duration, R(100)))
             half   == RDiv(len, R(2))
         IN  [clampView([w EXCEPT !.viewStart = RSub(center, half),
                                  !.viewEnd = RAdd(center, half)])
                EXCEPT !.hasView = TRUE]

zoomOut(w) ==
    IF RLe(w.duration, Zero) THEN w
    ELSE LET center == RDiv(RAdd(w.viewStart, w.viewEnd), R(2))
             len0   == RMul(RSub(w.viewEnd, w.viewStart), ZoomFactor)
             len    == RMin(len0, w.duration)
             half   == RDiv(len, R(2))
         IN  [clampView([w EXCEPT !.viewStart = RSub(center, half),
                                  !.viewEnd = RAdd(center, half)])
                EXCEPT !.hasView = TRUE]

\* fitAll() moving only the window's end.
fitAll_KeepStart(w) ==
    IF RLe(w.duration, Zero) THEN w
    ELSE [w EXCEPT !.viewEnd = w.duration, !.hasView = FALSE]

fitAll(w) ==
    IF RLe(w.duration, Zero) THEN w
    ELSE [w EXCEPT !.viewStart = Zero, !.viewEnd = w.duration,
                   !.hasView = FALSE]

MinSegLen == Rat(1, 20)

SegmentShare == Rat(3, 5)

\* The zoom with the whole of viewLen - segLen, not half of it, put on each
\* side of the segment.
autoZoomToSegment_FullMargin(w, begin, end) ==
    IF RLe(w.duration, Zero) \/ RLt(begin, Zero) \/ RLe(end, begin)
    THEN fitAll(w)
    ELSE LET segStart == RMax(Zero, begin)
             segEnd   == RMin(w.duration, end)
             segLen   == RMax(MinSegLen, RSub(segEnd, segStart))
             viewLen  == RMin(RDiv(segLen, SegmentShare), w.duration)
             margin   == RSub(viewLen, segLen)
             vs0      == RSub(segStart, margin)
             ve0      == RAdd(segEnd, margin)
             \* if (viewStart < 0.0) { viewEnd -= viewStart; viewStart = 0.0; }
             vs1      == IF RLt(vs0, Zero) THEN Zero ELSE vs0
             ve1      == IF RLt(vs0, Zero) THEN RSub(ve0, vs0) ELSE ve0
             \* if (viewEnd > m_duration) { ... }
             over     == RLt(w.duration, ve1)
             vs2      == IF over THEN RSub(vs1, RSub(ve1, w.duration)) ELSE vs1
             vs3      == IF over /\ RLt(vs2, Zero) THEN Zero ELSE vs2
             ve3      == IF over THEN w.duration ELSE ve1
         IN  [w EXCEPT !.viewStart = vs3, !.viewEnd = ve3, !.hasView = TRUE]

autoZoomToSegment(w, begin, end) ==
    IF RLe(w.duration, Zero) \/ RLt(begin, Zero) \/ RLe(end, begin)
    THEN fitAll(w)
    ELSE LET segStart == RMax(Zero, begin)
             segEnd   == RMin(w.duration, end)
             segLen   == RMax(MinSegLen, RSub(segEnd, segStart))
             viewLen  == RMin(RDiv(segLen, SegmentShare), w.duration)
             margin   == RDiv(RSub(viewLen, segLen), R(2))
             vs0      == RSub(segStart, margin)
             ve0      == RAdd(segEnd, margin)
             \* if (viewStart < 0.0) { viewEnd -= viewStart; viewStart = 0.0; }
             vs1      == IF RLt(vs0, Zero) THEN Zero ELSE vs0
             ve1      == IF RLt(vs0, Zero) THEN RSub(ve0, vs0) ELSE ve0
             \* if (viewEnd > m_duration) { ... }
             over     == RLt(w.duration, ve1)
             vs2      == IF over THEN RSub(vs1, RSub(ve1, w.duration)) ELSE vs1
             vs3      == IF over /\ RLt(vs2, Zero) THEN Zero ELSE vs2
             ve3      == IF over THEN w.duration ELSE ve1
         IN  [w EXCEPT !.viewStart = vs3, !.viewEnd = ve3, !.hasView = TRUE]

\* ------------------------------------------------------------------------
\* State
\* ------------------------------------------------------------------------

VARIABLES
    sentences,        \* SetupTab::m_sentences
    currentRow,       \* SetupTab::m_currentRow, -1 = no selection
    loopSentence,     \* SetupTab::m_loopSentence
    duration,         \* SetupTab::m_duration, seconds
    audioPath,        \* SetupTab::m_audioPath, "" = empty
    textPath,         \* SetupTab::m_textPath
    currentJsonPath,  \* SetupTab::m_currentJsonPath, "" = no section file
    playSpeed,        \* SetupTab::m_playSpeed
    editBegin,        \* text of the Begin line edit
    editEnd,          \* text of the End line edit
    waveform,         \* the WaveformWidget's members
    player,           \* the QMediaPlayer: source, position (ms), state, rate
    files,            \* the JSON section files on disk, by path
    lastOp,           \* history: the handler that ran last
    pairBase,         \* history: the sentence list before a New talk that
                      \* is, so far, followed by nothing but one Delete
    zoomSteps,        \* history: how often Zoom In and Zoom Out were pressed
    edits,            \* history: how many timing edits were counted
    saved,            \* history: per section file, the lesson as it was when
                      \* it was last saved to that file
    practice,         \* the PracticeTab's members, as one record
    call              \* the helper function under examination: its
                      \* argument and, once it has run, its result

vars == <<sentences, currentRow, loopSentence, duration, audioPath, textPath,
          currentJsonPath, playSpeed, editBegin, editEnd, waveform, player,
          files, lastOp, pairBase, zoomSteps, edits, saved, practice, call>>

\* The Setup tab's members as one record, so that a handler is a function
\* from the tab's state to the tab's state and handlers compose as calls.
Cur ==
    [sentences |-> sentences, currentRow |-> currentRow,
     loopSentence |-> loopSentence, duration |-> duration,
     audioPath |-> audioPath, textPath |-> textPath,
     currentJsonPath |-> currentJsonPath, playSpeed |-> playSpeed,
     editBegin |-> editBegin, editEnd |-> editEnd,
     waveform |-> waveform, player |-> player]

Become(st) ==
    /\ sentences' = st.sentences
    /\ currentRow' = st.currentRow
    /\ loopSentence' = st.loopSentence
    /\ duration' = st.duration
    /\ audioPath' = st.audioPath
    /\ textPath' = st.textPath
    /\ currentJsonPath' = st.currentJsonPath
    /\ playSpeed' = st.playSpeed
    /\ editBegin' = st.editBegin
    /\ editEnd' = st.editEnd
    /\ waveform' = st.waveform
    /\ player' = st.player

\* notified is the position of the last positionChanged signal; position
\* differs from it exactly when the handler of that signal has called
\* setPosition since.
NewPlayer ==
    [source |-> "", position |-> 0, state |-> "stopped", rate |-> R(1),
     notified |-> 0]

\* The members' default initialisers and what the constructor builds.
NewSetupTab ==
    [sentences |-> <<>>, currentRow |-> -1, loopSentence |-> FALSE,
     duration |-> Zero, audioPath |-> "", textPath |-> "",
     currentJsonPath |-> "", playSpeed |-> R(1),
     editBegin |-> <<>>, editEnd |-> <<>>,
     waveform |-> NewWaveform, player |-> NewPlayer]

\* The Practice tab's members' default initialisers and what its constructor
\* builds: tblSent is the sentence table, one record per row with the text
\* of the Content item and the check states of the Hide and Show items;
\* vocab is the set of words the vocabulary table lists in sorted order;
\* lblIdx is the number the sentence label shows, 0 for the dash.
NewPracticeTab ==
    [sentences |-> <<>>, currentRow |-> -1, loopSentence |-> FALSE,
     duration |-> Zero, audioPath |-> "", textPath |-> "", jsonPath |-> "",
     playSpeed |-> R(1), tblSent |-> <<>>, vocab |-> {}, lblIdx |-> 0,
     waveform |-> NewWaveform, player |-> NewPlayer]

\* No helper function is under examination.
NoCall == [fn |-> "none"]

\* ------------------------------------------------------------------------
\* Handlers of the Setup tab, as functions of its state
\* ------------------------------------------------------------------------

\* goToSentence zooming to every sentence it selects, timed or not.
goToSentence_AlwaysZoom(st, row) ==
    IF ~RowValid(row, st.sentences) THEN st
    ELSE LET s  == st.sentences[row + 1]
             w1 == setSelection(st.waveform, s.begin, s.end)
         IN  [st EXCEPT !.currentRow = row,
                        !.editBegin = formatTime(s.begin),
                        !.editEnd = formatTime(s.end),
                        !.waveform = autoZoomToSegment(w1, s.begin, s.end)]

goToSentence(st, row) ==
    IF ~RowValid(row, st.sentences) THEN st
    ELSE LET s  == st.sentences[row + 1]
             w1 == setSelection(st.waveform, s.begin, s.end)
         IN  [st EXCEPT !.currentRow = row,
                        !.editBegin = formatTime(s.begin),
                        !.editEnd = formatTime(s.end),
                        !.waveform = IF HasValidTiming(s)
                                     THEN autoZoomToSegment(w1, s.begin, s.end)
                                     ELSE w1]

\* Mutant of onNewTalk: the selection stays on the sentence it was on.
onNewTalk_KeepSelection(st) ==
    IF ~RowValid(st.currentRow, st.sentences)
    THEN [st EXCEPT !.sentences = Append(st.sentences,
                                         NewSentence(Len(st.sentences) + 1))]
    ELSE [st EXCEPT !.sentences =
                       Renumber(InsertAt(st.sentences, st.currentRow + 1,
                                         NewSentence(st.currentRow + 2)))]

onNewTalk(st) ==
    IF ~RowValid(st.currentRow, st.sentences)
    THEN LET sents == Append(st.sentences,
                             NewSentence(Len(st.sentences) + 1))
         IN  goToSentence([st EXCEPT !.sentences = sents], Len(sents) - 1)
    ELSE LET sents == Renumber(InsertAt(st.sentences, st.currentRow + 1,
                                        NewSentence(st.currentRow + 2)))
         IN  goToSentence([st EXCEPT !.sentences = sents], st.currentRow + 1)

onDeleteRow(st) ==
    IF ~RowValid(st.currentRow, st.sentences) THEN st
    ELSE LET sents == Renumber(RemoveAt(st.sentences, st.currentRow + 1))
             row   == IF st.currentRow >= Len(sents) THEN Len(sents) - 1
                      ELSE st.currentRow
             st1   == [st EXCEPT !.sentences = sents, !.currentRow = row]
         IN  IF row >= 0 THEN goToSentence(st1, row)
             ELSE [st1 EXCEPT !.editBegin = <<>>, !.editEnd = <<>>,
                              !.waveform = setSelection(st.waveform,
                                                        Undefined, Undefined)]

onRowClicked(st, row) ==
    IF ~RowValid(row, st.sentences) THEN st ELSE goToSentence(st, row)

\* Mutant of onConfirmChanged: ticking the box also selects the row.
onConfirmChanged_Select(st, row, checked) ==
    IF ~RowValid(row, st.sentences) THEN st
    ELSE goToSentence([st EXCEPT !.sentences[row + 1].confirm = checked], row)

\* The table's itemChanged handler, column 4 (Confirm).
onConfirmChanged(st, row, checked) ==
    IF ~RowValid(row, st.sentences) THEN st
    ELSE [st EXCEPT !.sentences[row + 1].confirm = checked]

\* Mutant of onContentChanged: a text edit clears Confirm as a timing edit
\* does.
onContentChanged_Unconfirm(st, row, text) ==
    IF ~RowValid(row, st.sentences) THEN st
    ELSE [st EXCEPT !.sentences[row + 1].text = text,
                    !.sentences[row + 1].confirm = FALSE]

\* The table's itemChanged handler, column 3 (Content).
onContentChanged(st, row, text) ==
    IF ~RowValid(row, st.sentences) THEN st
    ELSE [st EXCEPT !.sentences[row + 1].text = text]

\* The threshold of the "did the value change" tests: 1e-4 s.
ChangeEps == Rat(1, 10000)

\* The step of the up/down buttons: 0.010 s.
AdjustStep == Rat(1, 100)

\* The tolerance of the loop test: 0.05 s.
LoopTolerance == Rat(1, 20)

\* The common body of setTimeFromPlayHead and setTimeFromEditor once the new
\* time t is known: write it if it differs from the stored value by more than
\* 1e-4, and if it was written clear Confirm and refresh the selection.
writeTime(st, isBegin, t) ==
    LET row     == st.currentRow + 1
        s       == st.sentences[row]
        old     == IF isBegin THEN s.begin ELSE s.end
        changed == RLt(ChangeEps, RAbs(RSub(old, t)))
        s1      == IF isBegin THEN [s EXCEPT !.begin = t, !.confirm = FALSE]
                   ELSE [s EXCEPT !.end = t, !.confirm = FALSE]
    IN  IF ~changed THEN st
        ELSE [st EXCEPT !.sentences[row] = s1,
                        !.waveform = setSelection(st.waveform,
                                                  s1.begin, s1.end)]

setTimeFromPlayHead(st, isBegin) ==
    IF ~RowValid(st.currentRow, st.sentences) THEN st
    ELSE writeTime(st, isBegin, Rat(st.player.position, 1000))

\* setTimeFromEditor taking a text that does not parse for the time zero.
setTimeFromEditor_ZeroOnFailure(st, isBegin) ==
    IF ~RowValid(st.currentRow, st.sentences) THEN st
    ELSE LET t == parseTime(IF isBegin THEN st.editBegin ELSE st.editEnd)
         IN  writeTime(st, isBegin, IF RLt(t, Zero) THEN Zero ELSE t)

setTimeFromEditor(st, isBegin) ==
    IF ~RowValid(st.currentRow, st.sentences) THEN st
    ELSE LET t == parseTime(IF isBegin THEN st.editBegin ELSE st.editEnd)
         IN  IF RLt(t, Zero) THEN st ELSE writeTime(st, isBegin, t)

\* adjustTime zooming to the adjusted segment, as a selection does.
adjustTime_Rezoom(st, isBegin, delta) ==
    IF ~RowValid(st.currentRow, st.sentences) THEN st
    ELSE LET row == st.currentRow + 1
             s   == st.sentences[row]
             v0  == IF isBegin THEN s.begin ELSE s.end
             v1  == IF RLt(v0, Zero) THEN Zero ELSE v0
             v2  == RAdd(v1, delta)
             v3  == IF RLt(v2, Zero) THEN Zero ELSE v2
             s1  == IF isBegin THEN [s EXCEPT !.begin = v3, !.confirm = FALSE]
                    ELSE [s EXCEPT !.end = v3, !.confirm = FALSE]
         IN  [st EXCEPT !.sentences[row] = s1,
                        !.editBegin = IF isBegin THEN formatTime(s1.begin)
                                      ELSE st.editBegin,
                        !.editEnd = IF isBegin THEN st.editEnd
                                    ELSE formatTime(s1.end),
                        !.waveform =
                           autoZoomToSegment(
                             setSelection(st.waveform, s1.begin, s1.end),
                             s1.begin, s1.end)]

adjustTime(st, isBegin, delta) ==
    IF ~RowValid(st.currentRow, st.sentences) THEN st
    ELSE LET row == st.currentRow + 1
             s   == st.sentences[row]
             v0  == IF isBegin THEN s.begin ELSE s.end
             v1  == IF RLt(v0, Zero) THEN Zero ELSE v0
             v2  == RAdd(v1, delta)
             v3  == IF RLt(v2, Zero) THEN Zero ELSE v2
             s1  == IF isBegin THEN [s EXCEPT !.begin = v3, !.confirm = FALSE]
                    ELSE [s EXCEPT !.end = v3, !.confirm = FALSE]
         IN  [st EXCEPT !.sentences[row] = s1,
                        !.editBegin = IF isBegin THEN formatTime(s1.begin)
                                      ELSE st.editBegin,
                        !.editEnd = IF isBegin THEN st.editEnd
                                    ELSE formatTime(s1.end),
                        !.waveform = setSelection(st.waveform,
                                                  s1.begin, s1.end)]

\* max(1, countWords(text)) of each sentence.
WordCounts(sents) ==
    [i \in 1..Len(sents) |->
        IF countWords(sents[i].text) <= 0 THEN 1
        ELSE countWords(sents[i].text)]

RECURSIVE SumSeq(_)
SumSeq(ns) == IF ns = <<>> THEN 0 ELSE Head(ns) + SumSeq(Tail(ns))

\* The assignment loop with the cursor left where it started, so that every
\* sentence begins at the same time.
RECURSIVE AssignFrom_CursorStuck(_, _, _, _, _, _)
AssignFrom_CursorStuck(sents, counts, total, dur, i, t) ==
    IF i > Len(sents) THEN sents
    ELSE LET frac == Rat(counts[i], total)
             len  == RMul(dur, frac)
         IN  AssignFrom_CursorStuck([sents EXCEPT ![i].begin = t,
                                                  ![i].end = RAdd(t, len)],
                                    counts, total, dur, i + 1, t)

\* The assignment loop of autoAssignTimesIfEmpty from sentence i on, with the
\* running cursor t.
RECURSIVE AssignFrom(_, _, _, _, _, _)
AssignFrom(sents, counts, total, dur, i, t) ==
    IF i > Len(sents) THEN sents
    ELSE LET frac == Rat(counts[i], total)
             len  == RMul(dur, frac)
         IN  AssignFrom([sents EXCEPT ![i].begin = t,
                                      ![i].end = RAdd(t, len)],
                        counts, total, dur, i + 1, RAdd(t, len))

\* autoAssignTimesIfEmpty without its test for a sentence that has valid
\* timing already.
autoAssignTimesIfEmpty_Always(st) ==
    IF RLe(st.duration, Zero) THEN st
    ELSE IF st.sentences = <<>> THEN st
    ELSE LET counts == WordCounts(st.sentences)
             total0 == SumSeq(counts)
             total  == IF total0 <= 0 THEN Len(st.sentences) ELSE total0
             sents  == AssignFrom(st.sentences, counts, total,
                                  st.duration, 1, Zero)
         IN  [st EXCEPT
                !.sentences = sents,
                !.waveform =
                   IF RowValid(st.currentRow, sents)
                   THEN setSelection(st.waveform,
                                     sents[st.currentRow + 1].begin,
                                     sents[st.currentRow + 1].end)
                   ELSE st.waveform]

autoAssignTimesIfEmpty(st) ==
    IF RLe(st.duration, Zero) THEN st
    ELSE IF st.sentences = <<>> THEN st
    ELSE IF \E i \in 1..Len(st.sentences) : HasValidTiming(st.sentences[i])
    THEN st
    ELSE LET counts == WordCounts(st.sentences)
             total0 == SumSeq(counts)
             total  == IF total0 <= 0 THEN Len(st.sentences) ELSE total0
             sents  == AssignFrom(st.sentences, counts, total,
                                  st.duration, 1, Zero)
         IN  [st EXCEPT
                !.sentences = sents,
                !.waveform =
                   IF RowValid(st.currentRow, sents)
                   THEN setSelection(st.waveform,
                                     sents[st.currentRow + 1].begin,
                                     sents[st.currentRow + 1].end)
                   ELSE st.waveform]

\* The player's durationChanged signal.
onDurationChanged(st, ms) ==
    LET d == Rat(ms, 1000)
    IN  autoAssignTimesIfEmpty(
          [st EXCEPT !.duration = d,
                     !.waveform = setDuration(st.waveform, d)])

\* The handler without its test of the Loop flag.
onPositionChanged_IgnoreLoopFlag(st, posMs) ==
    LET st1 == [st EXCEPT !.player.position = posMs,
                          !.player.notified = posMs]
    IN  IF ~RowValid(st.currentRow, st.sentences) THEN st1
        ELSE LET s == st.sentences[st.currentRow + 1]
             IN  IF HasValidTiming(s)
                    /\ RLt(RAdd(s.end, LoopTolerance), Rat(posMs, 1000))
                 THEN [st1 EXCEPT !.player.position =
                                     RTrunc(RMul(s.begin, R(1000)))]
                 ELSE st1

\* The player's positionChanged signal: the player is at posMs; with Loop on
\* and the position past the selected sentence's end, seek to its begin.
onPositionChanged(st, posMs) ==
    LET st1 == [st EXCEPT !.player.position = posMs,
                          !.player.notified = posMs]
    IN  IF ~st.loopSentence THEN st1
        ELSE IF ~RowValid(st.currentRow, st.sentences) THEN st1
        ELSE LET s == st.sentences[st.currentRow + 1]
             IN  IF HasValidTiming(s)
                    /\ RLt(RAdd(s.end, LoopTolerance), Rat(posMs, 1000))
                 THEN [st1 EXCEPT !.player.position =
                                     RTrunc(RMul(s.begin, R(1000)))]
                 ELSE st1

onLoopClicked(st) == [st EXCEPT !.loopSentence = ~st.loopSentence]

\* ------------------------------------------------------------------------
\* Files: what the file dialogs can return and what the disk holds
\* ------------------------------------------------------------------------

\* QMediaPlayer::setSource followed by stop().
setSource(p, path) ==
    [p EXCEPT !.source = path, !.position = 0, !.state = "stopped",
              !.notified = 0]

\* Audio files that exist (QFile::exists).
ExistingAudio == {"a1.mp3"}

\* Text files that can be opened, with their contents.
TextFileContent(path) ==
    CASE path = "t1.txt" ->
           <<"H", "i", ".", " ", "G", "o", " ", "o", "n", ".">>
      [] path = "t2.txt" -> <<"N", "o", " ", "e", "n", "d">>
      [] OTHER -> <<>>

ReadableText == {"t1.txt", "t2.txt"}

JsonPaths == {"a1.json", "b.json", "gone.json", "list.json", "moved.json"}

\* dir.entryList({base + "*.json"}): the section files next to an audio file
\* whose name starts with the audio file's base name.
NameMatches(jsonPath, audio) == jsonPath = "a1.json" /\ audio = "a1.mp3"

\* A file that does not exist, a file that is not JSON, and a JSON file
\* whose root is an array.
NoFile == [kind |-> "none"]
Garbage == [kind |-> "garbage"]
ArrayRoot == [kind |-> "array"]

IsDoc(f) == f.kind = "object"

Field(obj, name, default) ==
    IF name \in DOMAIN obj THEN obj[name] ELSE default

\* The loop of loadLessonJson over the "sentences" array.
ReadSentences(arr) ==
    [i \in 1..Len(arr) |->
        [id |-> Field(arr[i], "id", i),
         begin |-> Field(arr[i], "begin", Undefined),
         end |-> Field(arr[i], "end", Undefined),
         text |-> Field(arr[i], "text", <<>>),
         confirm |-> Field(arr[i], "confirmed", FALSE)]]

loadLessonJson(disk, jsonPath) ==
    LET f == disk[jsonPath]
    IN  IF ~IsDoc(f) THEN [ok |-> FALSE]
        ELSE [ok |-> TRUE,
              audioPath |-> Field(f, "audio_path", ""),
              textPath |-> Field(f, "text_path", ""),
              playSpeed |-> Field(f, "play_speed", R(1)),
              lastSentence |-> Field(f, "last_selected_sentence", 0),
              sentences |-> ReadSentences(Field(f, "sentences", <<>>))]

\* loadFromJson emptying the sentence list before it reads the file.
loadFromJson_ClearFirst(st, disk, jsonPath, newAudio) ==
    LET r == loadLessonJson(disk, jsonPath)
        st0 == [st EXCEPT !.sentences = <<>>, !.currentRow = -1]
    IN  IF ~r.ok THEN st0
        ELSE IF r.audioPath \notin ExistingAudio /\ newAudio = "" THEN st0
        ELSE LET audio == IF r.audioPath \notin ExistingAudio THEN newAudio
                          ELSE r.audioPath
                 st1 == [st EXCEPT
                           !.audioPath = audio,
                           !.textPath = r.textPath,
                           !.playSpeed = r.playSpeed,
                           !.currentJsonPath = jsonPath,
                           !.sentences = r.sentences,
                           !.player = [setSource(st.player, audio)
                                         EXCEPT !.rate = r.playSpeed]]
                 last == IF r.lastSentence < 0
                            \/ r.lastSentence >= Len(r.sentences)
                         THEN 0 ELSE r.lastSentence
             IN  IF r.sentences # <<>> THEN goToSentence(st1, last) ELSE st1

\* newAudio: what the "Select audio file" dialog returns if it is shown
\* ("" = cancelled).
loadFromJson(st, disk, jsonPath, newAudio) ==
    LET r == loadLessonJson(disk, jsonPath)
    IN  IF ~r.ok THEN st
        ELSE IF r.audioPath \notin ExistingAudio /\ newAudio = "" THEN st
        ELSE LET audio == IF r.audioPath \notin ExistingAudio THEN newAudio
                          ELSE r.audioPath
                 st1 == [st EXCEPT
                           !.audioPath = audio,
                           !.textPath = r.textPath,
                           !.playSpeed = r.playSpeed,
                           !.currentJsonPath = jsonPath,
                           !.sentences = r.sentences,
                           !.player = [setSource(st.player, audio)
                                         EXCEPT !.rate = r.playSpeed]]
                 last == IF r.lastSentence < 0
                            \/ r.lastSentence >= Len(r.sentences)
                         THEN 0 ELSE r.lastSentence
             IN  IF r.sentences # <<>> THEN goToSentence(st1, last) ELSE st1

\* The sentences openAudioText builds from the segmenter's output.
FromParts(parts) ==
    [i \in 1..Len(parts) |->
        [NewSentence(i) EXCEPT !.text = trimmed(parts[i])]]

\* pickedAudio, pickedText: what the two file dialogs return ("" =
\* cancelled); loadFound: the answer to "Load this setup instead?".
openAudioText(st, disk, pickedAudio, pickedText, loadFound, newAudio) ==
    IF pickedAudio = "" \/ pickedText = "" THEN st
    ELSE IF pickedText \notin ReadableText THEN st
    ELSE LET sents == FromParts(
                        splitTextIntoSentencesAdvanced(
                          TextFileContent(pickedText)))
             st1 == [st EXCEPT
                       !.sentences = sents,
                       !.audioPath = pickedAudio,
                       !.textPath = pickedText,
                       !.currentJsonPath = "",
                       !.player = setSource(st.player, pickedAudio)]
             st2 == IF sents # <<>> THEN goToSentence(st1, 0) ELSE st1
             candidates == {p \in JsonPaths :
                              disk[p] # NoFile /\ NameMatches(p, pickedAudio)}
         IN  IF candidates # {} /\ loadFound
             THEN loadFromJson(st2, disk, CHOOSE p \in candidates : TRUE,
                               newAudio)
             ELSE st2

openFromJson(st, disk, pickedJson, newAudio) ==
    IF pickedJson = "" THEN st
    ELSE loadFromJson(st, disk, pickedJson, newAudio)

\* The document saveLessonJson builds.
LessonDoc(audioPath_, textPath_, sents, playSpeed_, lastSentence) ==
    [kind |-> "object", audio_path |-> audioPath_, text_path |-> textPath_,
     play_speed |-> playSpeed_, last_selected_sentence |-> lastSentence,
     sentences |->
       [i \in 1..Len(sents) |->
          [id |-> sents[i].id, begin |-> sents[i].begin,
           end |-> sents[i].end, text |-> sents[i].text,
           confirmed |-> sents[i].confirm]]]

\* canWrite: whether the file can be opened for writing.
saveLessonJson(disk, jsonPath, audio, text, sents, speed, last, canWrite) ==
    IF ~canWrite THEN [ok |-> FALSE, disk |-> disk]
    ELSE [ok |-> TRUE,
          disk |-> [disk EXCEPT ![jsonPath] =
                      LessonDoc(audio, text, sents, speed, last)]]

\* saveCurrentLesson recording the first sentence as the selected one.
saveCurrentLesson_FirstRow(st, disk, jsonPath, canWrite) ==
    saveLessonJson(disk, jsonPath, st.audioPath, st.textPath,
                   st.sentences, st.playSpeed, 0, canWrite)

saveCurrentLesson(st, disk, jsonPath, canWrite) ==
    LET lastSent == IF st.currentRow < 0 THEN 0 ELSE st.currentRow
    IN  saveLessonJson(disk, jsonPath, st.audioPath, st.textPath,
                       st.sentences, st.playSpeed, lastSent, canWrite)

\* jsonPath.endsWith(".json") ? jsonPath : jsonPath + ".json"
WithJsonSuffix(name) == IF name = "b" THEN "b.json" ELSE name

\* Save as adopting the chosen name whether or not the write succeeded.
onSaveAs_AdoptAnyway(st, disk, picked, canWrite) ==
    IF st.audioPath = "" \/ st.sentences = <<>>
    THEN [st |-> st, disk |-> disk, written |-> ""]
    ELSE IF picked = "" THEN [st |-> st, disk |-> disk, written |-> ""]
    ELSE LET jsonPath == WithJsonSuffix(picked)
             r == saveCurrentLesson(st, disk, jsonPath, canWrite)
         IN  [st |-> [st EXCEPT !.currentJsonPath = jsonPath],
              disk |-> r.disk, written |-> IF r.ok THEN jsonPath ELSE ""]

\* picked: what the "Save JSON section" dialog returns ("" = cancelled).
\* The result is the tab's state, the disk, and the file written ("" = none).
onSaveAs(st, disk, picked, canWrite) ==
    IF st.audioPath = "" \/ st.sentences = <<>>
    THEN [st |-> st, disk |-> disk, written |-> ""]
    ELSE IF picked = "" THEN [st |-> st, disk |-> disk, written |-> ""]
    ELSE LET jsonPath == WithJsonSuffix(picked)
             r == saveCurrentLesson(st, disk, jsonPath, canWrite)
         IN  IF r.ok
             THEN [st |-> [st EXCEPT !.currentJsonPath = jsonPath],
                   disk |-> r.disk, written |-> jsonPath]
             ELSE [st |-> st, disk |-> disk, written |-> ""]

\* Save section asking for a name every time.
onSaveSection_AlwaysAsk(st, disk, picked, canWrite) ==
    IF st.audioPath = "" \/ st.sentences = <<>>
    THEN [st |-> st, disk |-> disk, written |-> ""]
    ELSE onSaveAs(st, disk, picked, canWrite)

onSaveSection(st, disk, picked, canWrite) ==
    IF st.audioPath = "" \/ st.sentences = <<>>
    THEN [st |-> st, disk |-> disk, written |-> ""]
    ELSE IF st.currentJsonPath = "" THEN onSaveAs(st, disk, picked, canWrite)
    ELSE LET r == saveCurrentLesson(st, disk, st.currentJsonPath, canWrite)
         IN  [st |-> st, disk |-> r.disk,
              written |-> IF r.ok THEN st.currentJsonPath ELSE ""]

\* ------------------------------------------------------------------------
\* Handlers of the Practice tab, as functions of its state
\* ------------------------------------------------------------------------

UpperLetters ==
    <<"A", "B", "C", "D", "E", "F", "G", "H", "I", "J", "K", "L", "M",
      "N", "O", "P", "Q", "R", "S", "T", "U", "V", "W", "X", "Y", "Z">>

LowerLetters ==
    <<"a", "b", "c", "d", "e", "f", "g", "h", "i", "j", "k", "l", "m",
      "n", "o", "p", "q", "r", "s", "t", "u", "v", "w", "x", "y", "z">>

\* A character the expression [^A-Za-z'] does not match.
IsWordChar(c) ==
    \/ c = "'"
    \/ \E i \in 1..26 : c = UpperLetters[i] \/ c = LowerLetters[i]

\* QString::toLower on one character.
LowerOf(c) ==
    IF \E i \in 1..26 : c = UpperLetters[i]
    THEN LowerLetters[CHOOSE i \in 1..26 : c = UpperLetters[i]]
    ELSE c

\* The words rebuildVocabTable takes from one text: everything but letters
\* and apostrophes becomes a space, the words are lower-cased.
VocabWords(text) ==
    LET tmp   == [i \in 1..Len(text) |->
                    IF IsWordChar(text[i]) THEN text[i] ELSE " "]
        words == SplitWords(tmp, <<>>)
    IN  { [i \in 1..Len(words[k]) |-> LowerOf(words[k][i])] :
            k \in 1..Len(words) }

\* The table lists the words of the set in sorted order.
rebuildVocabTable(p) ==
    [p EXCEPT !.vocab =
        UNION { VocabWords(p.sentences[i].text) : i \in 1..Len(p.sentences) }]

rebuildSentenceTable(p) ==
    [p EXCEPT !.tblSent =
        [i \in 1..Len(p.sentences) |->
           [content |-> p.sentences[i].text, hide |-> FALSE, show |-> TRUE]]]

\* QMediaPlayer::play: without a source there is nothing to play.
play(pl) == IF pl.source = "" THEN pl ELSE [pl EXCEPT !.state = "playing"]

\* PracticeTab::playSentence
practicePlaySentence(p) ==
    IF ~RowValid(p.currentRow, p.sentences)
    THEN [p EXCEPT !.player = play(p.player)]
    ELSE LET s  == p.sentences[p.currentRow + 1]
             p1 == IF RLe(Zero, s.begin)
                   THEN [p EXCEPT !.player.position =
                                     RTrunc(RMul(s.begin, R(1000)))]
                   ELSE p
         IN  [p1 EXCEPT !.player = play([p1.player EXCEPT
                                           !.rate = p.playSpeed])]

selectSentence(p, row, withPlay) ==
    IF ~RowValid(row, p.sentences) THEN p
    ELSE LET s  == p.sentences[row + 1]
             w1 == setSelection(p.waveform, s.begin, s.end)
             p1 == [p EXCEPT !.currentRow = row,
                             !.lblIdx = row + 1,
                             !.waveform =
                                IF HasValidTiming(s)
                                THEN autoZoomToSegment(w1, s.begin, s.end)
                                ELSE w1]
         IN  IF withPlay THEN practicePlaySentence(p1) ELSE p1

\* The blank line the Hide column puts into the Content cell.
HiddenText == [i \in 1..25 |-> "_"]

\* col 2 is the Hide column, col 3 the Show column.
handleHideShowClicked(p, row, col) ==
    IF row < 0 \/ row >= Len(p.tblSent) THEN p
    ELSE IF col # 2 /\ col # 3 THEN p
    ELSE IF col = 2
         THEN [p EXCEPT !.tblSent[row + 1] =
                 [content |-> HiddenText, hide |-> TRUE, show |-> FALSE]]
         ELSE [p EXCEPT !.tblSent[row + 1] =
                 [content |-> p.sentences[row + 1].text,
                  hide |-> FALSE, show |-> TRUE]]

\* The cellClicked signal of the sentence table.
onCellClicked(p, row, col) ==
    IF col = 2 \/ col = 3 THEN handleHideShowClicked(p, row, col)
    ELSE selectSentence(p, row, FALSE)

\* The user edits the Content item of a row in place; the tab connects no
\* handler to the table's change signals, so only the item's text changes.
editContentItem(p, row, text) ==
    IF row < 0 \/ row >= Len(p.tblSent) THEN p
    ELSE [p EXCEPT !.tblSent[row + 1].content = text]

\* PracticeTab::onOpen.  picked: what the "Open JSON section file" dialog
\* returns; newAudio: what the "Select audio file" dialog returns if shown.
onOpen(p, disk, picked, newAudio) ==
    IF picked = "" THEN p
    ELSE LET r == loadLessonJson(disk, picked)
         IN  IF ~r.ok THEN p
             ELSE IF r.audioPath \notin ExistingAudio /\ newAudio = "" THEN p
             ELSE LET audio == IF r.audioPath \notin ExistingAudio
                               THEN newAudio ELSE r.audioPath
                      p1 == [p EXCEPT
                               !.audioPath = audio,
                               !.textPath = r.textPath,
                               !.jsonPath = picked,
                               !.playSpeed = r.playSpeed,
                               !.sentences = r.sentences,
                               !.player = [setSource(p.player, audio)
                                             EXCEPT !.rate = r.playSpeed]]
                      p2 == rebuildVocabTable(rebuildSentenceTable(p1))
                      last == IF r.lastSentence < 0
                                 \/ r.lastSentence >= Len(r.sentences)
                              THEN 0 ELSE r.lastSentence
                  IN  IF r.sentences # <<>>
                      THEN selectSentence(p2, last, FALSE) ELSE p2

\* ------------------------------------------------------------------------
\* Bounds and inputs
\* ------------------------------------------------------------------------

\* New talk is not offered beyond this many sentences.
MaxSentences == 3

\* What the user may type into a Content cell.
TypedTexts == { <<"O", "k">> }

AudioPicks == {"", "a1.mp3"}

TextPicks == {"", "t1.txt", "locked.txt"}

JsonPicks == {"", "a1.json", "b.json"}

SampleDoc ==
    [kind |-> "object", audio_path |-> "a1.mp3", text_path |-> "t1.txt",
     play_speed |-> R(1), last_selected_sentence |-> 1,
     sentences |->
       << [id |-> 1, begin |-> Zero, end |-> Rat(1, 2),
           text |-> <<"H", "i", ".">>, confirmed |-> TRUE],
          [id |-> 2, begin |-> Rat(1, 2), end |-> R(1),
           text |-> <<"G", "o", " ", "o", "n", ".">>,
           confirmed |-> FALSE] >>]

\* A lesson whose audio file is no longer where the lesson says.
MovedDoc ==
    [kind |-> "object", audio_path |-> "old.mp3", text_path |-> "t2.txt",
     play_speed |-> Rat(3, 2), last_selected_sentence |-> 0,
     sentences |->
       << [id |-> 1, begin |-> Zero, end |-> Rat(3, 10),
           text |-> <<"N", "o", " ", "e", "n", "d">>,
           confirmed |-> TRUE] >>]

InitialDisk ==
    [p \in JsonPaths |->
        CASE p = "a1.json" -> SampleDoc
          [] p = "gone.json" -> NoFile
          [] p = "list.json" -> ArrayRoot
          [] p = "moved.json" -> MovedDoc
          [] OTHER -> Garbage]

NoPair == [active |-> FALSE, sents |-> <<>>]

\* No save to the file so far.
NotSaved == [none |-> TRUE]

\* What a save records of the lesson.
Snapshot(st) ==
    [audioPath |-> st.audioPath, textPath |-> st.textPath,
     playSpeed |-> st.playSpeed, sentences |-> st.sentences,
     currentRow |-> st.currentRow]

\* ------------------------------------------------------------------------
\* Initial state and actions
\* ------------------------------------------------------------------------

\* Both tabs as their constructors leave them, and the disk.
Constructed ==
    /\ sentences = NewSetupTab.sentences
    /\ currentRow = NewSetupTab.currentRow
    /\ loopSentence = NewSetupTab.loopSentence
    /\ duration = NewSetupTab.duration
    /\ audioPath = NewSetupTab.audioPath
    /\ textPath = NewSetupTab.textPath
    /\ currentJsonPath = NewSetupTab.currentJsonPath
    /\ playSpeed = NewSetupTab.playSpeed
    /\ editBegin = NewSetupTab.editBegin
    /\ editEnd = NewSetupTab.editEnd
    /\ waveform = NewSetupTab.waveform
    /\ player = NewSetupTab.player
    /\ files = InitialDisk
    /\ lastOp = "constructor"
    /\ pairBase = NoPair
    /\ zoomSteps = 0
    /\ edits = 0
    /\ saved = [p \in JsonPaths |-> NotSaved]
    /\ practice = NewPracticeTab

Init == Constructed /\ call = NoCall

\* Open, branch "Audio + Text".
OpenAudioText ==
    /\ \E a \in AudioPicks, t \in TextPicks, yes \in BOOLEAN :
         Become(openAudioText(Cur, files, a, t, yes, ""))
    /\ lastOp' = "openAudioText"
    /\ pairBase' = NoPair
    /\ UNCHANGED <<files, zoomSteps, edits, saved, practice, call>>

\* Open, branch "JSON section".
OpenFromJson ==
    /\ \E j \in JsonPicks : Become(openFromJson(Cur, files, j, ""))
    /\ lastOp' = "openFromJson"
    /\ pairBase' = NoPair
    /\ UNCHANGED <<files, zoomSteps, edits, saved, practice, call>>

NewTalk ==
    /\ Len(sentences) < MaxSentences
    /\ Become(onNewTalk(Cur))
    /\ lastOp' = "onNewTalk"
    /\ pairBase' = [active |-> TRUE, sents |-> sentences]
    /\ UNCHANGED <<files, zoomSteps, edits, saved, practice, call>>

DeleteRow ==
    /\ Become(onDeleteRow(Cur))
    /\ lastOp' = "onDeleteRow"
    /\ pairBase' = IF lastOp = "onNewTalk" THEN pairBase ELSE NoPair
    /\ UNCHANGED <<files, zoomSteps, edits, saved, practice, call>>

RowClicked ==
    /\ \E row \in 0..(Len(sentences) - 1) : Become(onRowClicked(Cur, row))
    /\ lastOp' = "onRowClicked"
    /\ pairBase' = NoPair
    /\ UNCHANGED <<files, zoomSteps, edits, saved, practice, call>>

PrevSentence ==
    /\ Become(goToSentence(Cur, currentRow - 1))
    /\ lastOp' = "prev"
    /\ pairBase' = NoPair
    /\ UNCHANGED <<files, zoomSteps, edits, saved, practice, call>>

NextSentence ==
    /\ Become(goToSentence(Cur, currentRow + 1))
    /\ lastOp' = "next"
    /\ pairBase' = NoPair
    /\ UNCHANGED <<files, zoomSteps, edits, saved, practice, call>>

ConfirmChanged ==
    /\ \E row \in 0..(Len(sentences) - 1), checked \in BOOLEAN :
         Become(onConfirmChanged(Cur, row, checked))
    /\ lastOp' = "confirmChanged"
    /\ pairBase' = NoPair
    /\ UNCHANGED <<files, zoomSteps, edits, saved, practice, call>>

ContentChanged ==
    /\ \E row \in 0..(Len(sentences) - 1), text \in TypedTexts :
         Become(onContentChanged(Cur, row, text))
    /\ lastOp' = "contentChanged"
    /\ pairBase' = NoPair
    /\ UNCHANGED <<files, zoomSteps, edits, saved, practice, call>>

Next ==
    \/ OpenAudioText
    \/ OpenFromJson
    \/ NewTalk
    \/ DeleteRow
    \/ RowClicked
    \/ PrevSentence
    \/ NextSentence
    \/ ConfirmChanged
    \/ ContentChanged

Spec == Init /\ [][Next]_vars

\* ------------------------------------------------------------------------
\* Timing edits
\* ------------------------------------------------------------------------

\* The up buttons are not pressed beyond this many steps above zero.
MaxAdjustSteps == 3

AdjustCeiling == RMul(R(MaxAdjustSteps), AdjustStep)

\* Player positions reported while a lesson is open, in milliseconds.
PositionsMs == {0, 10}

\* Durations the player reports, in milliseconds.
DurationsMs == {0, 30}

\* What the user may type into the Begin and End editors.
TypedTimes ==
    { <<"0", ":", "0", ".", "0", "1", "0", "0", "5">>,
      <<"x">> }

\* Open audio + text with both files chosen and no section file loaded.
OpenLesson ==
    /\ Become(openAudioText(Cur, files, "a1.mp3", "t1.txt", FALSE, ""))
    /\ lastOp' = "openAudioText"
    /\ pairBase' = NoPair
    /\ UNCHANGED <<files, zoomSteps, edits, saved, practice, call>>

PositionChanged ==
    /\ \E posMs \in PositionsMs : Become(onPositionChanged(Cur, posMs))
    /\ lastOp' = "positionChanged"
    /\ pairBase' = NoPair
    /\ UNCHANGED <<files, zoomSteps, edits, saved, practice, call>>

DurationChanged ==
    /\ \E ms \in DurationsMs : Become(onDurationChanged(Cur, ms))
    /\ lastOp' = "durationChanged"
    /\ pairBase' = NoPair
    /\ UNCHANGED <<files, zoomSteps, edits, saved, practice, call>>

SetFromPlayHead ==
    /\ \E isBegin \in BOOLEAN : Become(setTimeFromPlayHead(Cur, isBegin))
    /\ lastOp' = "setTimeFromPlayHead"
    /\ pairBase' = NoPair
    /\ UNCHANGED <<files, zoomSteps, edits, saved, practice, call>>

\* editingFinished of the Begin or End editor, the text either left as it is
\* or typed over first.
EditorFinished ==
    /\ \E isBegin \in BOOLEAN :
         \E typed \in TypedTimes
                      \cup {IF isBegin THEN editBegin ELSE editEnd} :
           Become(setTimeFromEditor(
                    IF isBegin THEN [Cur EXCEPT !.editBegin = typed]
                    ELSE [Cur EXCEPT !.editEnd = typed],
                    isBegin))
    /\ lastOp' = "setTimeFromEditor"
    /\ pairBase' = NoPair
    /\ UNCHANGED <<files, zoomSteps, edits, saved, practice, call>>

\* The four up/down buttons.
AdjustTime ==
    /\ \E isBegin \in BOOLEAN, up \in BOOLEAN :
         LET delta == IF up THEN AdjustStep ELSE RSub(Zero, AdjustStep)
             st    == adjustTime(Cur, isBegin, delta)
         IN  /\ \A i \in 1..Len(st.sentences) :
                   /\ RLe(st.sentences[i].begin, AdjustCeiling)
                   /\ RLe(st.sentences[i].end, AdjustCeiling)
             /\ Become(st)
    /\ lastOp' = "adjustTime"
    /\ pairBase' = NoPair
    /\ UNCHANGED <<files, zoomSteps, edits, saved, practice, call>>

NextTiming ==
    \/ OpenLesson
    \/ ConfirmChanged
    \/ PositionChanged
    \/ DurationChanged
    \/ SetFromPlayHead
    \/ EditorFinished
    \/ AdjustTime

SpecTiming == Init /\ [][NextTiming]_vars

\* ------------------------------------------------------------------------
\* The waveform's viewport
\* ------------------------------------------------------------------------

\* The three zoom buttons.
onZoomIn(st) == [st EXCEPT !.waveform = zoomIn(st.waveform)]

onZoomOut(st) == [st EXCEPT !.waveform = zoomOut(st.waveform)]

onFitAll(st) == [st EXCEPT !.waveform = fitAll(st.waveform)]

\* Highlighting a segment and zooming to it, as every selection of a
\* sentence does: setSelection(begin, end), autoZoomToSegment(begin, end).
selectSegment(st, begin, end) ==
    [st EXCEPT !.waveform =
        autoZoomToSegment(setSelection(st.waveform, begin, end), begin, end)]

\* Durations of the audio files opened one after the other, in
\* milliseconds; 0 is what the player reports while nothing is loaded.
ViewDurationsMs == {0, 8000, 60000}

\* Segments handed to the waveform, <<begin, end>> in seconds: inside the
\* file, at its start, at its end, shorter than the minimum segment length,
\* longer than 60% of the file, past the end of the file, in the middle of
\* the 8-second file and longer than 60% of it, and without a
\* begin, without an end, empty and reversed.
ViewSegments ==
    { <<R(10), Rat(21, 2)>>, <<Zero, R(1)>>, <<Rat(119, 2), R(60)>>,
      <<R(20), Rat(2001, 100)>>, <<R(5), R(50)>>, <<R(70), R(80)>>,
      <<R(1), R(7)>>,
      <<Undefined, Undefined>>, <<Undefined, R(2)>>, <<R(3), Undefined>>,
      <<R(3), R(3)>>, <<R(4), R(2)>> }

\* Zoom In and Zoom Out are not pressed more often than this.
MaxZoomSteps == 3

DurationChangedView ==
    /\ \E ms \in ViewDurationsMs : Become(onDurationChanged(Cur, ms))
    /\ lastOp' = "durationChanged"
    /\ pairBase' = NoPair
    /\ UNCHANGED <<files, zoomSteps, edits, saved, practice, call>>

ZoomIn ==
    /\ zoomSteps < MaxZoomSteps
    /\ Become(onZoomIn(Cur))
    /\ lastOp' = "zoomIn"
    /\ pairBase' = NoPair
    /\ zoomSteps' = zoomSteps + 1
    /\ UNCHANGED <<files, edits, saved, practice, call>>

ZoomOut ==
    /\ zoomSteps < MaxZoomSteps
    /\ Become(onZoomOut(Cur))
    /\ lastOp' = "zoomOut"
    /\ pairBase' = NoPair
    /\ zoomSteps' = zoomSteps + 1
    /\ UNCHANGED <<files, edits, saved, practice, call>>

FitAll ==
    /\ Become(onFitAll(Cur))
    /\ lastOp' = "fitAll"
    /\ pairBase' = NoPair
    /\ UNCHANGED <<files, zoomSteps, edits, saved, practice, call>>

AutoZoom ==
    /\ \E seg \in ViewSegments : Become(selectSegment(Cur, seg[1], seg[2]))
    /\ lastOp' = "autoZoomToSegment"
    /\ pairBase' = NoPair
    /\ UNCHANGED <<files, zoomSteps, edits, saved, practice, call>>

NextView ==
    \/ DurationChangedView
    \/ ZoomIn
    \/ ZoomOut
    \/ FitAll
    \/ AutoZoom

SpecView == Init /\ [][NextView]_vars

\* ------------------------------------------------------------------------
\* Timing edits next to the zoom buttons and the Loop button
\* ------------------------------------------------------------------------

LoopClicked ==
    /\ Become(onLoopClicked(Cur))
    /\ lastOp' = "loopClicked"
    /\ pairBase' = NoPair
    /\ UNCHANGED <<files, zoomSteps, edits, saved, practice, call>>

\* Next to the zoom buttons no more than this many timing edits are made.
MaxEdits == 1

CountedSetFromPlayHead ==
    /\ edits < MaxEdits
    /\ \E isBegin \in BOOLEAN : Become(setTimeFromPlayHead(Cur, isBegin))
    /\ lastOp' = "setTimeFromPlayHead"
    /\ pairBase' = NoPair
    /\ edits' = edits + 1
    /\ UNCHANGED <<files, zoomSteps, saved, practice, call>>

CountedEditorFinished ==
    /\ edits < MaxEdits
    /\ \E isBegin \in BOOLEAN :
         \E typed \in TypedTimes
                      \cup {IF isBegin THEN editBegin ELSE editEnd} :
           Become(setTimeFromEditor(
                    IF isBegin THEN [Cur EXCEPT !.editBegin = typed]
                    ELSE [Cur EXCEPT !.editEnd = typed],
                    isBegin))
    /\ lastOp' = "setTimeFromEditor"
    /\ pairBase' = NoPair
    /\ edits' = edits + 1
    /\ UNCHANGED <<files, zoomSteps, saved, practice, call>>

CountedAdjustTime ==
    /\ edits < MaxEdits
    /\ \E isBegin \in BOOLEAN, up \in BOOLEAN :
         Become(adjustTime(Cur, isBegin,
                           IF up THEN AdjustStep ELSE RSub(Zero, AdjustStep)))
    /\ lastOp' = "adjustTime"
    /\ pairBase' = NoPair
    /\ edits' = edits + 1
    /\ UNCHANGED <<files, zoomSteps, saved, practice, call>>

NextZoom ==
    \/ OpenLesson
    \/ DurationChanged
    \/ ConfirmChanged
    \/ LoopClicked
    \/ CountedSetFromPlayHead
    \/ CountedEditorFinished
    \/ CountedAdjustTime
    \/ ZoomIn
    \/ ZoomOut
    \/ FitAll

SpecZoom == Init /\ [][NextZoom]_vars

\* ------------------------------------------------------------------------
\* Looping the selected sentence
\* ------------------------------------------------------------------------

\* Player positions reported while the sample section plays, in
\* milliseconds: at its start, past the first sentence's end, past the
\* last sentence's end.
LoopPositionsMs == {0, 600, 1100}

PositionChangedLoop ==
    /\ \E posMs \in LoopPositionsMs : Become(onPositionChanged(Cur, posMs))
    /\ lastOp' = "positionChanged"
    /\ pairBase' = NoPair
    /\ UNCHANGED <<files, zoomSteps, edits, saved, practice, call>>

NextLoop ==
    \/ OpenFromJson
    \/ OpenLesson
    \/ RowClicked
    \/ LoopClicked
    \/ PositionChangedLoop

SpecLoop == Init /\ [][NextLoop]_vars

\* ------------------------------------------------------------------------
\* Saving a section and opening it again
\* ------------------------------------------------------------------------

\* What the user may type as the name of the section file.
SavePicks == {"", "b"}

Saved(r) ==
    /\ Become(r.st)
    /\ files' = r.disk
    /\ saved' = IF r.written = "" THEN saved
                ELSE [saved EXCEPT ![r.written] = Snapshot(Cur)]

SaveSection ==
    /\ \E picked \in SavePicks, canWrite \in BOOLEAN :
         /\ Saved(onSaveSection(Cur, files, picked, canWrite))
         /\ call' = [fn |-> "onSaveSection", picked |-> picked,
                     canWrite |-> canWrite]
    /\ lastOp' = "onSaveSection"
    /\ pairBase' = NoPair
    /\ UNCHANGED <<zoomSteps, edits, practice>>

SaveAs ==
    /\ \E picked \in SavePicks, canWrite \in BOOLEAN :
         /\ Saved(onSaveAs(Cur, files, picked, canWrite))
         /\ call' = [fn |-> "onSaveAs", picked |-> picked,
                     canWrite |-> canWrite]
    /\ lastOp' = "onSaveAs"
    /\ pairBase' = NoPair
    /\ UNCHANGED <<zoomSteps, edits, practice>>

\* Open, branch "JSON section", with a file chosen that was saved before.
OpenSaved ==
    /\ \E j \in JsonPaths :
         /\ saved[j] # NotSaved
         /\ Become(openFromJson(Cur, files, j, ""))
    /\ lastOp' = "openSaved"
    /\ pairBase' = NoPair
    /\ UNCHANGED <<files, zoomSteps, edits, saved, practice, call>>

NextSave ==
    \/ OpenLesson
    \/ OpenFromJson
    \/ RowClicked
    \/ DeleteRow
    \/ SaveSection
    \/ SaveAs
    \/ OpenSaved

SpecSave == Init /\ [][NextSave]_vars

\* ------------------------------------------------------------------------
\* Opening section files in either tab
\* ------------------------------------------------------------------------

setupVars ==
    <<sentences, currentRow, loopSentence, duration, audioPath, textPath,
      currentJsonPath, playSpeed, editBegin, editEnd, waveform, player>>

\* What the "Open JSON section file" dialog may return.
LoadPicks == {""} \cup JsonPaths

\* Open, branch "JSON section", with any file of the disk chosen and either
\* answer to the "Select audio file" dialog.
OpenAnyJson ==
    /\ \E j \in LoadPicks, newAudio \in AudioPicks :
         /\ Become(openFromJson(Cur, files, j, newAudio))
         /\ call' = [fn |-> "openFromJson", jsonPath |-> j,
                     newAudio |-> newAudio]
    /\ lastOp' = "openAnyJson"
    /\ pairBase' = NoPair
    /\ UNCHANGED <<files, zoomSteps, edits, saved, practice>>

\* The Practice tab's Open button.
PracticeOpen ==
    /\ \E j \in LoadPicks, newAudio \in AudioPicks :
         /\ practice' = onOpen(practice, files, j, newAudio)
         /\ call' = [fn |-> "onOpen", jsonPath |-> j, newAudio |-> newAudio]
    /\ lastOp' = "practiceOpen"
    /\ pairBase' = NoPair
    /\ UNCHANGED setupVars
    /\ UNCHANGED <<files, zoomSteps, edits, saved>>

NextLoad ==
    \/ OpenLesson
    \/ RowClicked
    \/ DeleteRow
    \/ FitAll
    \/ OpenAnyJson
    \/ PracticeOpen

SpecLoad == Init /\ [][NextLoad]_vars

\* ------------------------------------------------------------------------
\* The current section file
\* ------------------------------------------------------------------------

\* Open, branch "Audio + Text", with its dialogs' answers on record.
OpenAudioTextAny ==
    /\ \E a \in AudioPicks, t \in TextPicks, yes \in BOOLEAN :
         /\ Become(openAudioText(Cur, files, a, t, yes, ""))
         /\ call' = [fn |-> "openAudioText", audio |-> a, text |-> t,
                     loadFound |-> yes]
    /\ lastOp' = "openAudioTextAny"
    /\ pairBase' = NoPair
    /\ UNCHANGED <<files, zoomSteps, edits, saved, practice>>

NextFile ==
    \/ OpenAudioTextAny
    \/ OpenAnyJson
    \/ DeleteRow
    \/ SaveSection
    \/ SaveAs

SpecFile == Init /\ [][NextFile]_vars

\* ------------------------------------------------------------------------
\* The helper functions on their own
\* ------------------------------------------------------------------------

\* Times given to formatTime, in milliseconds: the first minute's ends, a
\* stretch of the second minute, and the largest time below 100 hours.
TimesMs == {0, 1, 999, 59999, 60000, 359999999} \cup (61000..61060)

\* Times that are not a whole number of milliseconds or are not times.
OddTimes == { Rat(-1, 1), Rat(-1, 2000), Rat(1, 2000), Rat(2999, 2000) }

\* Texts given to parseTime.
TimeTexts ==
    { <<"1", ":", "3", "0">>,
      <<" ", "2", ":", "0", "5", ".", "5", " ">>,
      <<"+", "1", ":", "0", "0">>,
      <<"-", "1", ":", "9", "0">>,
      <<"1", ":", "-", "3", "0">>,
      <<"-", "1", ":", "3", "0">>,
      <<"1", ":", "2", ":", "3">>,
      <<"9", "0">>,
      <<"x", ":", "1">>,
      <<"1", ":", "x">>,
      <<"1", ".", "5", ":", "0">>,
      <<":">>,
      <<>> }

InitCodec ==
    /\ Constructed
    /\ \/ \E k \in TimesMs :
            call = [fn |-> "sec", sec |-> B64OfRat(Rat(k, 1000))]
       \/ \E r \in OddTimes : call = [fn |-> "sec", sec |-> B64OfRat(r)]
       \/ \E s \in TimeTexts : call = [fn |-> "text", text |-> s]

ApplyFormatTime ==
    /\ call.fn = "sec"
    /\ call' = [fn |-> "formatTime", sec |-> call.sec,
                text |-> formatTimeBinary64(call.sec)]
    /\ lastOp' = "formatTime"
    /\ UNCHANGED setupVars
    /\ UNCHANGED <<files, pairBase, zoomSteps, edits, saved, practice>>

ApplyParseTime ==
    /\ call.fn \in {"formatTime", "text"}
    /\ call' = [fn |-> "parseTime", given |-> call, text |-> call.text,
                sec |-> parseTimeBinary64(call.text)]
    /\ lastOp' = "parseTime"
    /\ UNCHANGED setupVars
    /\ UNCHANGED <<files, pairBase, zoomSteps, edits, saved, practice>>

NextCodec ==
    \/ ApplyFormatTime
    \/ ApplyParseTime

SpecCodec == InitCodec /\ [][NextCodec]_vars

\* Texts given to the segmenter: every text of up to MaxTextLen characters
\* over a letter, a space and two terminators.
MaxTextLen == 4

TextChars == {"a", " ", ".", "?"}

SegmenterTexts == UNION { [1..n -> TextChars] : n \in 0..MaxTextLen }

InitSegmenter ==
    /\ Constructed
    /\ \E s \in SegmenterTexts : call = [fn |-> "text", text |-> s]

ApplySegmenter ==
    /\ call.fn = "text"
    /\ call' = [fn |-> "splitTextIntoSentencesAdvanced", text |-> call.text,
                out |-> splitTextIntoSentencesAdvanced(call.text)]
    /\ lastOp' = "splitTextIntoSentencesAdvanced"
    /\ UNCHANGED setupVars
    /\ UNCHANGED <<files, pairBase, zoomSteps, edits, saved, practice>>

NextSegmenter == ApplySegmenter

SpecSegmenter == InitSegmenter /\ [][NextSegmenter]_vars

\* ------------------------------------------------------------------------
\* The Practice tab next to the Setup tab
\* ------------------------------------------------------------------------

\* What the learner may type into a Content cell of the Practice table.
PracticeTyped == { <<"O", "k">> }

\* A click on a cell of the Practice tab's sentence table.  The record of
\* the call keeps what the row showed just before the click.
PracticeCellClicked ==
    /\ \E row \in 0..(Len(practice.tblSent) - 1), col \in 0..3 :
         /\ practice' = onCellClicked(practice, row, col)
         /\ call' = [fn |-> "cellClicked", row |-> row, col |-> col,
                     before |-> practice.tblSent[row + 1]]
    /\ lastOp' = "practiceCellClicked"
    /\ pairBase' = NoPair
    /\ UNCHANGED setupVars
    /\ UNCHANGED <<files, zoomSteps, edits, saved>>

\* The learner types into the Content cell of a row.
PracticeEditContent ==
    /\ \E row \in 0..(Len(practice.tblSent) - 1), text \in PracticeTyped :
         /\ practice' = editContentItem(practice, row, text)
         /\ call' = [fn |-> "editContent", row |-> row, text |-> text,
                     before |-> practice.tblSent[row + 1]]
    /\ lastOp' = "practiceEditContent"
    /\ pairBase' = NoPair
    /\ UNCHANGED setupVars
    /\ UNCHANGED <<files, zoomSteps, edits, saved>>

NextPractice ==
    \/ OpenLesson
    \/ OpenAnyJson
    \/ DeleteRow
    \/ PracticeOpen
    \/ PracticeCellClicked
    \/ PracticeEditContent

SpecPractice == Init /\ [][NextPractice]_vars

\* ------------------------------------------------------------------------
\* Playing the selected sentence
\* ------------------------------------------------------------------------

\* QMediaPlayer::pause
pause(pl) == [pl EXCEPT !.state = "paused"]

\* SetupTab::playSentence
playSentence(st) ==
    IF ~RowValid(st.currentRow, st.sentences)
    THEN [st EXCEPT !.player = play(st.player)]
    ELSE LET s   == st.sentences[st.currentRow + 1]
             st1 == IF RLe(Zero, s.begin)
                    THEN [st EXCEPT !.player.position =
                                       RTrunc(RMul(s.begin, R(1000)))]
                    ELSE st
         IN  [st1 EXCEPT !.player = play([st1.player EXCEPT
                                            !.rate = st.playSpeed])]

\* The table's cellDoubleClicked signal.
onRowDoubleClicked(st, row) ==
    IF ~RowValid(row, st.sentences) THEN st
    ELSE playSentence(goToSentence(st, row))

\* keyPressEvent, key Space: pause if playing, otherwise play the sentence.
keyPressSpace(st) ==
    IF st.player.state = "playing"
    THEN [st EXCEPT !.player = pause(st.player)]
    ELSE playSentence(st)

\* The interval between two position reports of a playing player, and the
\* length of the audio file, in milliseconds.
PlayStepMs == 300
MediaLengthMs == 1200

\* What a play command leaves on record: the sentence it was given for and
\* whether Loop was on.
PlayCall == [fn |-> "playSentence", row |-> currentRow', loop |-> loopSentence]

\* The Sentence X button.
PlaySentence ==
    /\ Become(playSentence(Cur))
    /\ call' = PlayCall
    /\ lastOp' = "playSentence"
    /\ pairBase' = NoPair
    /\ UNCHANGED <<files, zoomSteps, edits, saved, practice>>

RowDoubleClicked ==
    /\ \E row \in 0..(Len(sentences) - 1) :
         Become(onRowDoubleClicked(Cur, row))
    /\ call' = PlayCall
    /\ lastOp' = "onRowDoubleClicked"
    /\ pairBase' = NoPair
    /\ UNCHANGED <<files, zoomSteps, edits, saved, practice>>

SpacePressed ==
    /\ Become(keyPressSpace(Cur))
    /\ call' = IF player.state = "playing" THEN call ELSE PlayCall
    /\ lastOp' = "keyPressSpace"
    /\ pairBase' = NoPair
    /\ UNCHANGED <<files, zoomSteps, edits, saved, practice>>

\* The Pause button.
PauseClicked ==
    /\ Become([Cur EXCEPT !.player = pause(player)])
    /\ lastOp' = "pause"
    /\ pairBase' = NoPair
    /\ UNCHANGED <<files, zoomSteps, edits, saved, practice, call>>

\* The player while it plays: one interval later it reports its position,
\* and at the end of the file it stops, unless the handler of the report
\* has sent it elsewhere.
PlaybackAdvances ==
    /\ player.state = "playing"
    /\ LET pos == IF player.position + PlayStepMs >= MediaLengthMs
                  THEN MediaLengthMs ELSE player.position + PlayStepMs
           st  == onPositionChanged(Cur, pos)
       IN  Become(IF st.player.position = MediaLengthMs
                  THEN [st EXCEPT !.player.state = "stopped"]
                  ELSE st)
    /\ lastOp' = "playbackAdvances"
    /\ pairBase' = NoPair
    /\ UNCHANGED <<files, zoomSteps, edits, saved, practice, call>>

NextPlay ==
    \/ OpenFromJson
    \/ NewTalk
    \/ RowClicked
    \/ LoopClicked
    \/ PlaySentence
    \/ RowDoubleClicked
    \/ SpacePressed
    \/ PauseClicked
    \/ PlaybackAdvances

SpecPlay == Init /\ [][NextPlay]_vars

\* ------------------------------------------------------------------------
\* The Begin and End editors
\* ------------------------------------------------------------------------

\* Texts parseTime rejects: empty, blank, no colon, two colons, minutes
\* that are no integer, seconds that are no number.
BadTimeTexts ==
    { <<>>, <<" ">>, <<"x">>, <<"1", "2">>, <<"1", ":", "2", ":", "3">>,
      <<"1", ".", "5", ":", "2">>, <<"0", ":", "x">> }

\* editingFinished of the Begin or End editor after the user has typed the
\* text over what the editor showed.
EditorTyped ==
    /\ \E isBegin \in BOOLEAN, typed \in TypedTimes \cup BadTimeTexts :
         /\ Become(setTimeFromEditor(
                     IF isBegin THEN [Cur EXCEPT !.editBegin = typed]
                     ELSE [Cur EXCEPT !.editEnd = typed],
                     isBegin))
         /\ call' = [fn |-> "setTimeFromEditor", isBegin |-> isBegin,
                     text |-> typed]
    /\ lastOp' = "setTimeFromEditor"
    /\ pairBase' = NoPair
    /\ UNCHANGED <<files, zoomSteps, edits, saved, practice>>

NextEditor ==
    \/ OpenFromJson
    \/ RowClicked
    \/ EditorTyped

SpecEditor == Init /\ [][NextEditor]_vars

\* ------------------------------------------------------------------------
\* Section files written by hand
\* ------------------------------------------------------------------------

\* The "id" values somebody may give the two sentences of a1.json in a text
\* editor: duplicated, out of order, far from 1..N; 0 stands for a sentence
\* object whose "id" member is removed.
HandIds == { <<1, 1>>, <<2, 1>>, <<7, 9>>, <<0, 0>>, <<1, 2>> }

WithId(o, id) ==
    IF id = 0 THEN [f \in (DOMAIN o) \ {"id"} |-> o[f]]
    ELSE [f \in (DOMAIN o) \cup {"id"} |-> IF f = "id" THEN id ELSE o[f]]

\* a1.json is edited outside the program; the program's state is untouched.
HandEditIds ==
    /\ IsDoc(files["a1.json"])
    /\ Len(files["a1.json"].sentences) = 2
    /\ \E ids \in HandIds :
         files' = [files EXCEPT !["a1.json"].sentences =
                     [i \in 1..2 |-> WithId(@[i], ids[i])]]
    /\ lastOp' = "handEdit"
    /\ pairBase' = NoPair
    /\ UNCHANGED setupVars
    /\ UNCHANGED <<zoomSteps, edits, saved, practice, call>>

NextIds ==
    \/ HandEditIds
    \/ OpenFromJson
    \/ RowClicked
    \/ DeleteRow
    \/ SaveSection

SpecIds == Init /\ [][NextIds]_vars

\* ------------------------------------------------------------------------
\* The selection
\* ------------------------------------------------------------------------

\* a1.json is rewritten outside the program with an empty "sentences"
\* array: a lesson with zero sentences.
HandEmptySection ==
    /\ IsDoc(files["a1.json"])
    /\ files["a1.json"].sentences # <<>>
    /\ files' = [files EXCEPT !["a1.json"].sentences = <<>>]
    /\ lastOp' = "handEdit"
    /\ pairBase' = NoPair
    /\ UNCHANGED setupVars
    /\ UNCHANGED <<zoomSteps, edits, saved, practice, call>>

NextSelection ==
    \/ HandEmptySection
    \/ OpenAudioText
    \/ OpenFromJson
    \/ NewTalk
    \/ DeleteRow
    \/ RowClicked
    \/ PrevSentence
    \/ NextSentence

SpecSelection == Init /\ [][NextSelection]_vars

\* ------------------------------------------------------------------------
\* The viewport on very short audio files
\* ------------------------------------------------------------------------

\* Durations in milliseconds: two below the minimum segment length of
\* 50 ms, one just above it, and a file of two seconds.
ShortDurationsMs == {0, 30, 40, 60, 2000}

\* Segments inside those files, <<begin, end>> in seconds.
ShortSegments ==
    { <<Zero, Rat(3, 100)>>, <<Zero, Rat(1, 100)>>,
      <<Rat(1, 100), Rat(1, 50)>>, <<Rat(1, 50), Rat(1, 25)>>,
      <<Zero, Rat(3, 50)>>, <<Rat(1, 2), R(1)>>, <<R(1), Rat(101, 100)>>,
      <<Zero, R(2)>> }

DurationChangedShort ==
    /\ \E ms \in ShortDurationsMs : Become(onDurationChanged(Cur, ms))
    /\ lastOp' = "durationChanged"
    /\ pairBase' = NoPair
    /\ UNCHANGED <<files, zoomSteps, edits, saved, practice, call>>

AutoZoomShort ==
    /\ \E seg \in ShortSegments : Become(selectSegment(Cur, seg[1], seg[2]))
    /\ lastOp' = "autoZoomToSegment"
    /\ pairBase' = NoPair
    /\ UNCHANGED <<files, zoomSteps, edits, saved, practice, call>>

NextShort ==
    \/ DurationChangedShort
    \/ AutoZoomShort
    \/ FitAll

SpecShort == Init /\ [][NextShort]_vars

\* ------------------------------------------------------------------------
\* Selecting sentences after a manual zoom
\* ------------------------------------------------------------------------

NextReselect ==
    \/ OpenFromJson
    \/ NewTalk
    \/ RowClicked
    \/ DurationChangedView
    \/ ZoomIn

SpecReselect == Init /\ [][NextReselect]_vars

\* ------------------------------------------------------------------------
\* Properties
\* ------------------------------------------------------------------------

\* A time is defined when it is not negative (Sentence: "<0 = undefined").
IsDefined(t) == RLe(Zero, t)

\* Two sentences agree on everything but the id.
SameContent(a, b) ==
    /\ a.text = b.text
    /\ a.begin = b.begin
    /\ a.end = b.end
    /\ a.confirm = b.confirm

\* The handlers that write a begin or an end.
TimingWrites == {"setTimeFromPlayHead", "setTimeFromEditor", "adjustTime"}

\* C1: the ids of the sentences are 1..N in list order, in every state
\* reached by opening well-numbered lessons and any sequence of New talk,
\* Delete and the other edits.
C1_IdsAreOneToN ==
    \A i \in 1..Len(sentences) : sentences[i].id = i

\* C1 witness: the first sentence of the two-sentence lesson has been
\* deleted, so the survivor had to be renumbered from 2 to 1.
C1_Witness ==
    /\ lastOp = "onDeleteRow"
    /\ Len(sentences) >= 1
    /\ sentences[1].text = <<"G", "o", " ", "o", "n", ".">>

\* C2 (as claimed): in every reachable state every sentence with begin and
\* end both defined has begin < end.
C2_BeginBeforeEnd ==
    \A i \in 1..Len(sentences) :
        (IsDefined(sentences[i].begin) /\ IsDefined(sentences[i].end))
            => RLt(sentences[i].begin, sentences[i].end)

\* C3 (as claimed): whenever a timing write or the auto-timing estimator
\* changes the begin or the end of a sentence, that sentence's confirmed flag
\* is false afterwards.
C3_TimingChangeClearsConfirm ==
    [][(lastOp' \in TimingWrites \cup {"durationChanged"}
        /\ Len(sentences') = Len(sentences))
       => \A i \in 1..Len(sentences) :
             (\/ sentences'[i].begin # sentences[i].begin
              \/ sentences'[i].end # sentences[i].end)
                => ~sentences'[i].confirm]_vars

\* C4: a Content edit changes at most one sentence, and of that sentence
\* only the text: ids, begin, end and confirmed of every sentence are kept.
C4_TextEditKeepsTimingAndConfirm ==
    [][lastOp' = "contentChanged"
       => /\ Len(sentences') = Len(sentences)
          /\ \A i \in 1..Len(sentences) :
                /\ sentences'[i].id = sentences[i].id
                /\ sentences'[i].begin = sentences[i].begin
                /\ sentences'[i].end = sentences[i].end
                /\ sentences'[i].confirm = sentences[i].confirm
          /\ Cardinality({i \in 1..Len(sentences) :
                            sentences'[i].text # sentences[i].text}) <= 1]_vars

\* C4 witness: a confirmed, timed sentence carries the typed text.
C4_Witness ==
    /\ lastOp = "contentChanged"
    /\ \E i \in 1..Len(sentences) :
          /\ sentences[i].text = <<"O", "k">>
          /\ sentences[i].confirm
          /\ HasValidTiming(sentences[i])

\* C5 (as claimed): a timing write whose result would have begin and end
\* both defined with begin >= end is rejected, so a sentence that is in such
\* a state after a timing write has the begin, end and confirmed it had
\* before the write.
C5_BadRangeRejected ==
    [][(lastOp' \in TimingWrites /\ Len(sentences') = Len(sentences))
       => \A i \in 1..Len(sentences) :
             (/\ IsDefined(sentences'[i].begin)
              /\ IsDefined(sentences'[i].end)
              /\ ~RLt(sentences'[i].begin, sentences'[i].end))
                => /\ sentences'[i].begin = sentences[i].begin
                   /\ sentences'[i].end = sentences[i].end
                   /\ sentences'[i].confirm = sentences[i].confirm]_vars

\* C6 (as claimed): a timing write that leaves both begin and end of a
\* sentence at their previous values leaves its confirmed flag unchanged.
C6_UnchangedTimingKeepsConfirm ==
    [][(lastOp' \in TimingWrites /\ Len(sentences') = Len(sentences))
       => \A i \in 1..Len(sentences) :
             (/\ sentences'[i].begin = sentences[i].begin
              /\ sentences'[i].end = sentences[i].end)
                => sentences'[i].confirm = sentences[i].confirm]_vars

\* C7: ticking or unticking Confirm changes nothing but confirmed flags, and
\* of one sentence at most: ids, begin, end and text of every sentence, the
\* selection, the editors and the waveform (selection and viewport) are kept.
C7_ConfirmEditChangesOnlyFlag ==
    [][lastOp' = "confirmChanged"
       => /\ Len(sentences') = Len(sentences)
          /\ \A i \in 1..Len(sentences) :
                /\ sentences'[i].id = sentences[i].id
                /\ sentences'[i].begin = sentences[i].begin
                /\ sentences'[i].end = sentences[i].end
                /\ sentences'[i].text = sentences[i].text
          /\ Cardinality({i \in 1..Len(sentences) :
                            sentences'[i].confirm # sentences[i].confirm}) <= 1
          /\ currentRow' = currentRow
          /\ waveform' = waveform
          /\ editBegin' = editBegin
          /\ editEnd' = editEnd]_vars

\* C7 witness: in a lesson opened from text, where nothing starts confirmed,
\* an unselected sentence has been confirmed.
C7_Witness ==
    /\ lastOp = "confirmChanged"
    /\ currentJsonPath = ""
    /\ \E i \in 1..Len(sentences) :
          sentences[i].confirm /\ i # currentRow + 1

\* C8: New talk adds one blank sentence, below the selected sentence or at
\* the end when the selection is not a row, and keeps every other sentence's
\* text, begin, end and confirmed, in order.
C8_NewTalkInsertsBlankBelow ==
    [][lastOp' = "onNewTalk"
       => LET n   == Len(sentences)
              pos == IF RowValid(currentRow, sentences) THEN currentRow + 2
                     ELSE n + 1
          IN  /\ Len(sentences') = n + 1
              /\ sentences'[pos].begin = Undefined
              /\ sentences'[pos].end = Undefined
              /\ sentences'[pos].text = <<>>
              /\ sentences'[pos].confirm = FALSE
              /\ \A i \in 1..n :
                    SameContent(sentences'[IF i < pos THEN i ELSE i + 1],
                                sentences[i])]_vars

\* C8 witness: a blank sentence stands between two sentences that have text.
C8_Witness ==
    /\ lastOp = "onNewTalk"
    /\ Len(sentences) = 3
    /\ currentRow = 1
    /\ sentences[2].text = <<>>
    /\ sentences[1].text # <<>>
    /\ sentences[3].text # <<>>
    /\ HasValidTiming(sentences[3])

\* C9: Delete with a selected row removes that sentence and keeps every other
\* sentence's text, begin, end and confirmed, in order; Delete with no
\* selected row changes nothing of the lesson.
C9_DeleteRemovesSelectedOnly ==
    [][lastOp' = "onDeleteRow"
       => IF RowValid(currentRow, sentences)
          THEN /\ Len(sentences') = Len(sentences) - 1
               /\ \A i \in 1..Len(sentences') :
                     SameContent(sentences'[i],
                                 sentences[IF i <= currentRow THEN i
                                           ELSE i + 1])
          ELSE /\ sentences' = sentences
               /\ currentRow' = currentRow
               /\ audioPath' = audioPath
               /\ textPath' = textPath
               /\ currentJsonPath' = currentJsonPath
               /\ playSpeed' = playSpeed]_vars

\* C9 witness: the first of three sentences was deleted and the two after it
\* are still there, the second one with its timing.
C9_Witness ==
    /\ lastOp = "onDeleteRow"
    /\ Len(sentences) = 2
    /\ sentences[1].text = <<"G", "o", " ", "o", "n", ".">>
    /\ HasValidTiming(sentences[1])
    /\ sentences[2].text = <<>>

\* C10: after a New talk immediately followed by a Delete, the sentence list
\* is what it was before the New talk: same length and, at every position,
\* the same id, text, begin, end and confirmed.
C10_InsertThenDeleteIsNoOp ==
    (lastOp = "onDeleteRow" /\ pairBase.active)
        => /\ Len(sentences) = Len(pairBase.sents)
           /\ \A i \in 1..Len(sentences) :
                 /\ sentences[i].id = i
                 /\ sentences[i].id = pairBase.sents[i].id
                 /\ SameContent(sentences[i], pairBase.sents[i])

\* C10 witness: the pair has run on a lesson of two timed sentences.
C10_Witness ==
    /\ lastOp = "onDeleteRow"
    /\ pairBase.active
    /\ Len(sentences) = 2
    /\ HasValidTiming(sentences[1])
    /\ HasValidTiming(sentences[2])

\* C11 (as claimed): when the duration-known notification arrives while at
\* least one sentence has a defined begin or a defined end, no sentence's
\* begin or end is changed.
C11_EstimatorOnlyWhenAllUndefined ==
    [][(lastOp' = "durationChanged"
        /\ \E i \in 1..Len(sentences) :
              IsDefined(sentences[i].begin) \/ IsDefined(sentences[i].end))
       => (/\ Len(sentences') = Len(sentences)
           /\ \A i \in 1..Len(sentences) :
                 /\ sentences'[i].begin = sentences[i].begin
                 /\ sentences'[i].end = sentences[i].end)]_vars


C13_ViewInsideDuration ==
    RLt(Zero, waveform.duration)
        => /\ RLe(Zero, waveform.viewStart)
           /\ RLt(waveform.viewStart, waveform.viewEnd)
           /\ RLe(waveform.viewEnd, waveform.duration)


\* The segment last handed to the waveform lies inside the file and the
\* margins of the zoom to it fit: 0 <= begin < end <= duration,
\* begin - margin >= 0 and end + margin <= duration, where
\* margin = (viewLen - segLen) / 2 for the given segLen and viewLen.
InteriorSegment(w, segLen, viewLen) ==
    LET margin == RDiv(RSub(viewLen, segLen), R(2))
    IN  /\ RLe(Zero, w.selBegin)
        /\ RLt(w.selBegin, w.selEnd)
        /\ RLe(w.selEnd, w.duration)
        /\ RLe(Zero, RSub(w.selBegin, margin))
        /\ RLe(RAdd(w.selEnd, margin), w.duration)

\* C14 (as claimed): after autoZoom(begin, end) on a segment inside the
\* file whose margins fit, the window has length
\* min(duration, max(minSegLen, end - begin) / 0.6), the margins before
\* begin and after end are equal, and the segment is 60% of the window.
C14_InteriorWindowIsSixtyPercent ==
    LET w == waveform
        segLen == RMax(Rat(1, 20), RSub(w.selEnd, w.selBegin))
        viewLen == RMin(w.duration, RDiv(segLen, Rat(3, 5)))
    IN  (lastOp = "autoZoomToSegment" /\ InteriorSegment(w, segLen, viewLen))
           => /\ RSub(w.viewEnd, w.viewStart) = viewLen
              /\ RSub(w.selBegin, w.viewStart) = RSub(w.viewEnd, w.selEnd)
              /\ RSub(w.selEnd, w.selBegin)
                   = RMul(Rat(3, 5), RSub(w.viewEnd, w.viewStart))

\* C14 (amended): after autoZoom(begin, end) on a segment inside the file
\* whose margins fit, the window is [begin - margin, end + margin] with
\* margin = (viewLen - segLen) / 2, segLen = max(minSegLen, end - begin) and
\* viewLen = min(duration, segLen / 0.6); its length is viewLen when
\* end - begin >= minSegLen, and the segment is 60% of it when moreover
\* (end - begin) / 0.6 <= duration.
C14_InteriorWindowHasEqualMargins ==
    LET w == waveform
        len == RSub(w.selEnd, w.selBegin)
        segLen == RMax(Rat(1, 20), len)
        viewLen == RMin(w.duration, RDiv(segLen, Rat(3, 5)))
        margin == RDiv(RSub(viewLen, segLen), R(2))
    IN  (lastOp = "autoZoomToSegment" /\ InteriorSegment(w, segLen, viewLen))
           => /\ w.viewStart = RSub(w.selBegin, margin)
              /\ w.viewEnd = RAdd(w.selEnd, margin)
              /\ RLe(Rat(1, 20), len)
                    => RSub(w.viewEnd, w.viewStart) = viewLen
              /\ (RLe(Rat(1, 20), len) /\ RLe(RDiv(len, Rat(3, 5)), w.duration))
                    => len = RMul(Rat(3, 5), RSub(w.viewEnd, w.viewStart))

\* C14 witness: autoZoom(10.0, 10.5) on the 60-second file gave the window
\* [59/6, 32/3], about [9.83, 10.67].
C14_Witness ==
    /\ lastOp = "autoZoomToSegment"
    /\ waveform.duration = R(60)
    /\ waveform.selBegin = R(10)
    /\ waveform.selEnd = Rat(21, 2)
    /\ waveform.viewStart = Rat(59, 6)
    /\ waveform.viewEnd = Rat(32, 3)


\* C15 (as claimed): after autoZoom(begin, end) with begin >= 0,
\* end > begin and duration > 0, also with begin or end past the duration,
\* the window satisfies 0 <= viewStart < viewEnd <= duration; when
\* the segment ends inside the file and begin - margin would be negative
\* the window starts at 0 and keeps its length, and when end + margin would
\* pass the duration the window ends at the duration and keeps its length.
C15_AutoZoomWindowInsideFile ==
    LET w == waveform
        segLen == RMax(Rat(1, 20), RSub(w.selEnd, w.selBegin))
        viewLen == RMin(w.duration, RDiv(segLen, Rat(3, 5)))
        margin == RDiv(RSub(viewLen, segLen), R(2))
        start0 == RSub(w.selBegin, margin)
        end0 == RAdd(w.selEnd, margin)
    IN  (/\ lastOp = "autoZoomToSegment"
         /\ RLt(Zero, w.duration)
         /\ RLe(Zero, w.selBegin)
         /\ RLt(w.selBegin, w.selEnd))
           => /\ RLe(Zero, w.viewStart)
              /\ RLt(w.viewStart, w.viewEnd)
              /\ RLe(w.viewEnd, w.duration)
              /\ (RLe(w.selEnd, w.duration) /\ RLt(start0, Zero))
                    => /\ w.viewStart = Zero
                       /\ RSub(w.viewEnd, w.viewStart) = RSub(end0, start0)
              /\ (/\ RLe(w.selEnd, w.duration)
                  /\ RLe(Zero, start0)
                  /\ RLt(w.duration, end0))
                    => /\ w.viewEnd = w.duration
                       /\ RSub(w.viewEnd, w.viewStart) = RSub(end0, start0)


\* The step is a fitAll(), or an autoZoom(begin, end) with begin or end
\* undefined, or end <= begin, or duration <= 0.
FitAllOrFallback ==
    \/ lastOp' = "fitAll"
    \/ /\ lastOp' = "autoZoomToSegment"
       /\ \/ ~IsDefined(waveform'.selBegin)
          \/ ~IsDefined(waveform'.selEnd)
          \/ RLe(waveform'.selEnd, waveform'.selBegin)
          \/ RLe(waveform'.duration, Zero)

\* C16 (as claimed): after fitAll(), and after autoZoom(begin, end) with
\* begin or end undefined, or end <= begin, or duration <= 0, the window is
\* exactly [0, duration].
C16_FallbackFitsWholeFile ==
    [][FitAllOrFallback
         => /\ waveform'.viewStart = Zero
            /\ waveform'.viewEnd = waveform'.duration]_vars

\* C16 (amended): after fitAll(), and after autoZoom(begin, end) with begin
\* or end undefined, or end <= begin, or duration <= 0, the window is
\* exactly [0, duration] if duration > 0, and is the window it was before
\* if duration <= 0.
C16_FallbackFitsWholeFileIfLoaded ==
    [][FitAllOrFallback
         => IF RLt(Zero, waveform'.duration)
            THEN /\ waveform'.viewStart = Zero
                 /\ waveform'.viewEnd = waveform'.duration
            ELSE /\ waveform'.viewStart = waveform.viewStart
                 /\ waveform'.viewEnd = waveform.viewEnd]_vars

\* C16 witness: after a press of a zoom button on the 60-second file,
\* autoZoom(3.0, undefined) has put the window back to [0, 60].
C16_Witness ==
    /\ lastOp = "autoZoomToSegment"
    /\ zoomSteps >= 1
    /\ waveform.selBegin = R(3)
    /\ waveform.selEnd = Undefined
    /\ waveform.duration = R(60)
    /\ waveform.viewStart = Zero
    /\ waveform.viewEnd = R(60)


\* The window lies inside the file: 0 <= viewStart < viewEnd <= duration.
WindowInsideFile(w) ==
    /\ RLe(Zero, w.viewStart)
    /\ RLt(w.viewStart, w.viewEnd)
    /\ RLe(w.viewEnd, w.duration)

\* C18 (as claimed): for every window inside [0, duration], after zoomOut
\* the window's length is min(1.5 * previous length, duration) and after
\* zoomIn it is max(previous length / 1.5, duration / 100).
C18_ZoomRescalesLength ==
    [][(RLt(Zero, waveform.duration) /\ WindowInsideFile(waveform))
         => LET prev == RSub(waveform.viewEnd, waveform.viewStart)
                now  == RSub(waveform'.viewEnd, waveform'.viewStart)
                d    == waveform.duration
            IN  /\ lastOp' = "zoomOut"
                     => now = RMin(RMul(Rat(3, 2), prev), d)
                /\ lastOp' = "zoomIn"
                     => now = RMax(RDiv(prev, Rat(3, 2)),
                                   RDiv(d, R(100)))]_vars


\* C17: Set from playhead, an edit in the Begin or End editor and an
\* up/down adjustment leave viewStart and viewEnd unchanged; when the
\* duration notification arrives the auto-timing estimator leaves them as
\* setDuration left them (unchanged if a zoom is in force, [0, duration]
\* otherwise); Zoom In, Zoom Out and Fit change no sentence's begin, end or
\* confirmed, nor the selection, nor the loop flag.
C17_ZoomAndTimingAreIndependent ==
    [][/\ lastOp' \in {"setTimeFromPlayHead", "setTimeFromEditor",
                       "adjustTime"}
            => /\ waveform'.viewStart = waveform.viewStart
               /\ waveform'.viewEnd = waveform.viewEnd
       /\ lastOp' = "durationChanged"
            => IF waveform.hasView
               THEN /\ waveform'.viewStart = waveform.viewStart
                    /\ waveform'.viewEnd = waveform.viewEnd
               ELSE /\ waveform'.viewStart = Zero
                    /\ waveform'.viewEnd = IF RLt(Zero, duration')
                                           THEN duration' ELSE R(1)
       /\ lastOp' \in {"zoomIn", "zoomOut", "fitAll"}
            => /\ Len(sentences') = Len(sentences)
               /\ \A i \in 1..Len(sentences) :
                     /\ sentences'[i].begin = sentences[i].begin
                     /\ sentences'[i].end = sentences[i].end
                     /\ sentences'[i].confirm = sentences[i].confirm
               /\ currentRow' = currentRow
               /\ loopSentence' = loopSentence]_vars

\* C17 witness: an up/down button was pressed while the window was zoomed
\* in on a lesson the estimator had timed, and the window is still the
\* zoomed one.
C17_Witness ==
    /\ lastOp = "adjustTime"
    /\ edits = 1
    /\ zoomSteps >= 1
    /\ waveform.hasView
    /\ RLt(Zero, waveform.viewStart)
    /\ Len(sentences) = 2
    /\ HasValidTiming(sentences[2])


\* C19: the handler of a position-changed notification seeks only if, in
\* the state it finds, Loop is on, the selected row is a row of the lesson,
\* that sentence has begin >= 0 and end > begin, and the notified position
\* is past its end plus the tolerance; and it then seeks to the begin of
\* that sentence, the one selected now.
C19_SeekOnlyToSelectedSentence ==
    [][(lastOp' = "positionChanged" /\ player'.position # player'.notified)
         => /\ loopSentence
            /\ currentRow >= 0
            /\ currentRow < Len(sentences)
            /\ LET s == sentences[currentRow + 1]
               IN  /\ RLe(Zero, s.begin)
                   /\ RLt(s.begin, s.end)
                   /\ RLt(RAdd(s.end, Rat(1, 20)),
                          Rat(player'.notified, 1000))
                   /\ Rat(player'.position, 1) = RMul(s.begin, R(1000))]_vars

\* C19 witness: the section was opened with its second sentence selected,
\* the first was then selected, and with Loop on the notification at 600 ms
\* made the player seek to 0 ms, the begin of the first sentence.
C19_Witness ==
    /\ lastOp = "positionChanged"
    /\ loopSentence
    /\ currentRow = 0
    /\ Len(sentences) = 2
    /\ sentences[2].begin = Rat(1, 2)
    /\ player.notified = 600
    /\ player.position = 0


\* C20: when a section file that was saved is opened, the lesson loaded
\* has the audio path, text path and play speed the lesson had when it was
\* last saved to that file, the same sentences (same number and, position
\* by position, same id, begin, end, text and confirmed, an undefined begin
\* or end staying undefined), and the same sentence selected.
C20_SaveThenLoadIsRoundTrip ==
    [][lastOp' = "openSaved"
         => LET was == saved[currentJsonPath']
            IN  /\ was # NotSaved
                /\ audioPath' = was.audioPath
                /\ textPath' = was.textPath
                /\ playSpeed' = was.playSpeed
                /\ Len(sentences') = Len(was.sentences)
                /\ \A i \in 1..Len(was.sentences) :
                      /\ sentences'[i].id = was.sentences[i].id
                      /\ sentences'[i].begin = was.sentences[i].begin
                      /\ sentences'[i].end = was.sentences[i].end
                      /\ sentences'[i].text = was.sentences[i].text
                      /\ sentences'[i].confirm = was.sentences[i].confirm
                /\ currentRow' = was.currentRow]_vars

\* C20 witness: the untimed two-sentence lesson was saved as b.json with its
\* second sentence selected, and b.json has just been opened while another
\* lesson was on screen.
C20_Witness ==
    /\ lastOp = "openSaved"
    /\ currentJsonPath = "b.json"
    /\ saved["a1.json"] # NotSaved
    /\ Len(sentences) = 2
    /\ currentRow = 1
    /\ ~IsDefined(sentences[1].begin)
    /\ ~IsDefined(sentences[2].end)

\* C21: a load that fails (the file cannot be opened, is not JSON, or has a
\* root that is not an object) applies nothing: in the Setup tab the
\* sentence list, the audio and text paths, the play speed, the current
\* section file, the selection and the viewport are as before the attempt,
\* and the Practice tab's Open leaves the Practice tab as it was.
C21_FailedLoadAppliesNothing ==
    [][ /\ ( /\ lastOp' = "openAnyJson"
             /\ call'.jsonPath # ""
             /\ ~loadLessonJson(files, call'.jsonPath).ok )
           => UNCHANGED setupVars
        /\ ( /\ lastOp' = "practiceOpen"
             /\ call'.jsonPath # ""
             /\ ~loadLessonJson(files, call'.jsonPath).ok )
           => UNCHANGED practice ]_vars

\* A failed load in the Setup tab while a lesson read from a section file
\* is open, its second sentence selected.
C21_Witness ==
    /\ lastOp = "openAnyJson"
    /\ call.jsonPath \in {"b.json", "gone.json", "list.json"}
    /\ ~loadLessonJson(files, call.jsonPath).ok
    /\ currentJsonPath = "a1.json"
    /\ Len(sentences) = 2
    /\ currentRow = 1

\* C22: when a well-formed section file names an audio file that does not
\* exist, the file's sentences are loaded whatever the answer to the
\* "Select audio file" dialog is, cancelling included, in the Setup tab and
\* in the Practice tab alike.
C22_MissingAudioStillLoadsSentences ==
    [][ ( /\ lastOp' \in {"openAnyJson", "practiceOpen"}
          /\ call'.jsonPath # ""
          /\ loadLessonJson(files, call'.jsonPath).ok
          /\ loadLessonJson(files, call'.jsonPath).audioPath
               \notin ExistingAudio )
        => LET r == loadLessonJson(files, call'.jsonPath)
           IN  IF lastOp' = "openAnyJson"
               THEN sentences' = r.sentences
               ELSE practice'.sentences = r.sentences ]_vars

\* The document Save section and Save as write for the lesson as it is.
CurrentDoc ==
    LessonDoc(audioPath, textPath, sentences, playSpeed,
              IF currentRow < 0 THEN 0 ELSE currentRow)

OnlyFileChanged(p) == \A q \in JsonPaths : q # p => files'[q] = files[q]

FoundJson(a) ==
    LET candidates == {p \in JsonPaths :
                         files[p] # NoFile /\ NameMatches(p, a)}
    IN  IF candidates = {} THEN "" ELSE CHOOSE p \in candidates : TRUE

\* Whether loading section file j goes through, given the answer to the
\* "Select audio file" dialog.
LoadSucceeds(j, newAudio) ==
    /\ loadLessonJson(files, j).ok
    /\ \/ loadLessonJson(files, j).audioPath \in ExistingAudio
       \/ newAudio # ""

\* C24: the current section file is none right after an Open audio+text
\* that loads no found section file, is P after a successful Save as to P
\* or a successful open of section file P, and is left as it was by a
\* cancelled Save-as dialog and by a write that fails.
C24_CurrentSectionFile ==
    [][ /\ ( /\ lastOp' = "openAudioTextAny"
             /\ call'.audio # ""
             /\ call'.text \in ReadableText )
           => currentJsonPath' =
                IF /\ FoundJson(call'.audio) # ""
                   /\ call'.loadFound
                   /\ LoadSucceeds(FoundJson(call'.audio), "")
                THEN FoundJson(call'.audio) ELSE ""
        /\ lastOp' = "onSaveAs"
           => currentJsonPath' =
                IF /\ audioPath # "" /\ sentences # <<>>
                   /\ call'.picked # "" /\ call'.canWrite
                THEN WithJsonSuffix(call'.picked) ELSE currentJsonPath
        /\ ( lastOp' = "onSaveAs" /\ currentJsonPath' # currentJsonPath )
           => files'[currentJsonPath'] = CurrentDoc
        /\ ( lastOp' = "openAnyJson" /\ call'.jsonPath # "" )
           => currentJsonPath' =
                IF LoadSucceeds(call'.jsonPath, call'.newAudio)
                THEN call'.jsonPath ELSE currentJsonPath ]_vars

\* Save as to "b" has succeeded for a lesson made from audio and text, and
\* b.json, which holds the lesson, is the current section file.
C24_Witness ==
    /\ lastOp = "onSaveAs"
    /\ call.picked = "b"
    /\ call.canWrite
    /\ currentJsonPath = "b.json"
    /\ files["b.json"] = CurrentDoc
    /\ textPath = "t1.txt"
    /\ saved["a1.json"] = NotSaved

\* The text is minutes of at least two digits, ':', two digits of seconds
\* below 60, '.', three digits of milliseconds.
IsTimeText(s) ==
    LET parts == SplitOn(s, ":", <<>>)
    IN  /\ Len(parts) = 2
        /\ Len(parts[1]) >= 2 /\ AllDigits(parts[1])
        /\ Len(parts[2]) = 6 /\ parts[2][3] = "."
        /\ AllDigits(SubSeq(parts[2], 1, 2))
        /\ AllDigits(SubSeq(parts[2], 4, 6))
        /\ DigitsVal(SubSeq(parts[2], 1, 2)) <= 59

\* C25: for a time t of a whole number of milliseconds, from 0 up to
\* 359999.999 s, parseTime(formatTime(t)) = t; formatTime yields minutes,
\* seconds in 0..59 and milliseconds in 0..999, and the empty text for a
\* negative (undefined) time.
C25_ParseInvertsFormat ==
    /\ call.fn = "formatTime"
       => IF call.sec.neg THEN call.text = <<>> ELSE IsTimeText(call.text)
    /\ ( /\ call.fn = "parseTime"
         /\ call.given.fn = "formatTime"
         /\ \E k \in TimesMs : call.given.sec = B64OfRat(Rat(k, 1000)) )
       => call.sec = call.given.sec

\* Exactly one ':' with a non-negative integer before it and a non-negative
\* number after it.
IsMinutesAndSeconds(s) ==
    LET parts == SplitOn(trimmed(s), ":", <<>>)
    IN  /\ Len(parts) = 2
        /\ toInt(parts[1]).ok /\ toInt(parts[1]).val >= 0
        /\ toDouble(parts[2]).ok /\ RLe(Zero, toDouble(parts[2]).val)

\* C26: parseTime returns a defined (non-negative) time only for a text with
\* exactly one ':' whose minute part is a non-negative integer and whose
\* second part is a non-negative number; "-1:90" and "1:-30" are undefined.
C26_ParseRejectsOddShapes ==
    ( call.fn = "parseTime" /\ ~call.sec.neg )
    => IsMinutesAndSeconds(call.text)

\* The characters of s that are not whitespace, in order.
RECURSIVE NonSpace(_)
NonSpace(s) ==
    IF s = <<>> THEN <<>>
    ELSE (IF IsSpace(Head(s)) THEN <<>> ELSE <<Head(s)>>) \o NonSpace(Tail(s))

RECURSIVE Concat(_)
Concat(ss) == IF ss = <<>> THEN <<>> ELSE Head(ss) \o Concat(Tail(ss))

\* C27: the segmenter drops no non-whitespace content: the segments
\* concatenated in order, whitespace removed, are the non-whitespace
\* characters of the input in order, and no segment is empty.
C27_SegmenterKeepsContent ==
    call.fn = "splitTextIntoSentencesAdvanced"
    => /\ NonSpace(Concat(call.out)) = NonSpace(call.text)
       /\ \A i \in 1..Len(call.out) : call.out[i] # <<>>

\* C28: switching a sentence's practice mode does not change its practice
\* text or its original text: when a row in hide mode, whatever was typed
\* into it, is switched to show and then back to hide, it displays what it
\* displayed before the two clicks.
C28_HideShowHideKeepsPracticeText ==
    [][ ( /\ lastOp = "practiceCellClicked"
          /\ call.col = 3
          /\ call.before.hide
          /\ lastOp' = "practiceCellClicked"
          /\ call'.col = 2
          /\ call'.row = call.row )
        => /\ practice'.tblSent[call.row + 1].content = call.before.content
           /\ practice'.sentences = practice.sentences ]_vars

\* C29: right after a lesson is opened in the Practice tab every sentence
\* is in hide mode: Hide is checked, Show is not, and the Content cell
\* shows the masked practice text, not the original text.
C29_OpensInHideMode ==
    [][ ( /\ lastOp' = "practiceOpen"
          /\ call'.jsonPath # ""
          /\ LoadSucceeds(call'.jsonPath, call'.newAudio) )
        => \A i \in 1..Len(practice'.tblSent) :
              /\ practice'.tblSent[i].hide
              /\ ~practice'.tblSent[i].show
              /\ practice'.tblSent[i].content = HiddenText ]_vars

\* The two tabs hold the same lesson.
SameLesson ==
    /\ Len(practice.sentences) = Len(sentences)
    /\ \A i \in 1..Len(sentences) :
          /\ practice.sentences[i].text = sentences[i].text
          /\ practice.sentences[i].begin = sentences[i].begin
          /\ practice.sentences[i].end = sentences[i].end
    /\ practice.jsonPath = currentJsonPath

\* C30: after an Open or a Delete in either tab, both tabs hold the same
\* sentence list (same length, same text, begin and end at every position)
\* and the same current JSON path.
C30_TabsHoldSameLesson ==
    lastOp \in {"openAudioText", "openAnyJson", "onDeleteRow",
                "practiceOpen"}
    => SameLesson

\* C31: when a lesson with a current section file and something to save is
\* open and Open replaces it with another lesson (audio and text that can
\* be read, or a section file that loads), the current section file then
\* holds the lesson as it was in memory just before the Open, so that no
\* edit made since the last save is lost.
C31_OpenSavesCurrentSectionFirst ==
    [][ ( /\ currentJsonPath # ""
          /\ audioPath # ""
          /\ sentences # <<>>
          /\ \/ /\ lastOp' = "openAnyJson"
                /\ call'.jsonPath # ""
                /\ LoadSucceeds(call'.jsonPath, call'.newAudio)
             \/ /\ lastOp' = "openAudioTextAny"
                /\ call'.audio # ""
                /\ call'.text \in ReadableText )
        => files'[currentJsonPath] = CurrentDoc ]_vars

\* C32: each time the Practice tab's Open loads a lesson, the tab's play
\* speed and the player's rate are 1.0 afterwards, whatever play_speed the
\* section file stores and whatever the speed was before, and the speed is
\* above zero.
C32_PracticeOpenResetsSpeed ==
    [][ ( /\ lastOp' = "practiceOpen"
          /\ call'.jsonPath # ""
          /\ LoadSucceeds(call'.jsonPath, call'.newAudio) )
        => /\ practice'.playSpeed = R(1)
           /\ practice'.player.rate = R(1)
           /\ RLt(Zero, practice'.playSpeed) ]_vars

\* C33: with Loop off, while the player plays after a play command given
\* for the selected sentence, a sentence with valid timing, the playback is
\* inside the sentence: it is not before Begin and not past End by more
\* than the interval between two position reports.
C33_PlaysSegmentOnce ==
    ( /\ player.state = "playing"
      /\ call.fn = "playSentence"
      /\ ~call.loop
      /\ ~loopSentence
      /\ call.row = currentRow
      /\ RowValid(currentRow, sentences)
      /\ HasValidTiming(sentences[currentRow + 1]) )
    => LET s == sentences[currentRow + 1]
       IN  /\ RLe(s.begin, Rat(player.position, 1000))
           /\ RLe(Rat(player.position, 1000),
                  RAdd(s.end, Rat(PlayStepMs, 1000)))

\* C34: a click or a double click on a sentence that has neither Begin nor
\* End selects it and leaves the player as it was: its play state and its
\* position do not change.
C34_UntimedSentenceNeverPlays ==
    [][ ( /\ lastOp' \in {"onRowClicked", "onRowDoubleClicked"}
          /\ RowValid(currentRow', sentences)
          /\ ~IsDefined(sentences[currentRow' + 1].begin)
          /\ ~IsDefined(sentences[currentRow' + 1].end) )
        => /\ player'.state = player.state
           /\ player'.position = player.position
           /\ sentences' = sentences ]_vars

\* C35: when the text typed into the Begin or End editor does not parse,
\* nothing is written: every sentence, the selected one included, keeps its
\* begin, end, confirm flag and text, the selection stays, and the waveform
\* keeps its selection and window.
C35_BadTimeTextChangesNothing ==
    [][ ( /\ lastOp' = "setTimeFromEditor"
          /\ parseTime(call'.text) = Undefined )
        => /\ sentences' = sentences
           /\ currentRow' = currentRow
           /\ waveform' = waveform ]_vars

\* A text that does not parse was typed into the End editor of the first
\* sentence of the sample section, which is confirmed and runs from 0 to
\* 0.5 s.
C35_Witness ==
    /\ lastOp = "setTimeFromEditor"
    /\ call.text = <<"0", ":", "x">>
    /\ ~call.isBegin
    /\ editEnd = call.text
    /\ currentRow = 0
    /\ sentences[1].confirm
    /\ sentences[1].begin = Zero
    /\ sentences[1].end = Rat(1, 2)

\* C36: right after Open > JSON section, with a lesson loaded from a section
\* file, the sentence ids are 1..N in list order, whatever "id" values the
\* file stores.
C36_LoadedIdsAreOneToN ==
    ( lastOp = "openFromJson" /\ currentJsonPath # "" )
    => \A i \in 1..Len(sentences) : sentences[i].id = i

\* C37: after every step the selection index is at least -1 and below the
\* number of sentences, and Previous on the first sentence and Next on the
\* last leave the selection where it is.
C37_SelectionInRange ==
    [][ /\ -1 <= currentRow'
        /\ currentRow' < Len(sentences')
        /\ ( lastOp' = "prev" /\ currentRow = 0 ) => currentRow' = 0
        /\ ( lastOp' = "next" /\ currentRow = Len(sentences) - 1 )
           => currentRow' = currentRow ]_vars

\* C38: after autoZoom on a segment with 0 <= begin < end <= duration the
\* whole segment is inside the window: viewStart <= begin and
\* end <= viewEnd, whatever the duration is.
C38_AutoZoomShowsWholeSegment ==
    LET w == waveform
    IN  ( /\ lastOp = "autoZoomToSegment"
          /\ RLe(Zero, w.selBegin)
          /\ RLt(w.selBegin, w.selEnd)
          /\ RLe(w.selEnd, w.duration) )
        => /\ RLe(w.viewStart, w.selBegin)
           /\ RLe(w.selEnd, w.viewEnd)

\* The window autoZoom gives a waveform that was never zoomed by hand.
FreshWindow(dur, begin, end) ==
    LET w == autoZoomToSegment(setDuration(NewWaveform, dur), begin, end)
    IN  <<w.viewStart, w.viewEnd>>

C40_AutoTimingRunsOnce ==
    [][ /\ ( /\ lastOp' = "durationChanged"
             /\ \E i \in 1..Len(sentences) : HasValidTiming(sentences[i]) )
           => sentences' = sentences
        /\ ( /\ lastOp' = "durationChanged"
             /\ lastOp = "durationChanged"
             /\ RLt(Zero, duration)
             /\ sentences # <<>> )
           => sentences' = sentences ]_vars

\* The duration has been reported again after the first sentence's begin
\* was moved by hand from the estimated 0 to 0.01 s, and the sentence still
\* has the begin set by hand.
C40_Witness ==
    /\ lastOp = "durationChanged"
    /\ RLt(Zero, duration)
    /\ Len(sentences) = 2
    /\ sentences[1].begin = Rat(1, 100)
    /\ HasValidTiming(sentences[1])
    /\ HasValidTiming(sentences[2])
    /\ sentences[2].end = duration

====
